---- MODULE Spec2Model ----
(***************************************************************************)
(* NewsWave AI Trader: the backtest execution engine (engine/backtest.py), *)
(* the rule-based / LLM decision engine (strategies/ai_pm.py), the two     *)
(* opportunity evaluators and the strategy router.                         *)
(*                                                                         *)
(* Numbers.  The program computes with Python floats.  A float is modelled *)
(* as a decimal floating-point number [m |-> mantissa, e |-> exponent] of  *)
(* value m * 10^e, with Prec significant digits and round-half-to-even on  *)
(* every arithmetic operation, i.e. IEEE 754 arithmetic at a precision TLC *)
(* can enumerate.  Every +, -, * and / of the source is one rounded        *)
(* operation of the model.                                                 *)
(***************************************************************************)
EXTENDS Integers, Sequences, FiniteSets, TLC

\* ------------------------------------------------------------------------
\* Bounds of the model
\* ------------------------------------------------------------------------
Prec == 3
MaxTicks == 3
MaxRuns == 2
MaxCalls == 6
MaxDecide == 2
MaxOther == 2
MaxLevels == 2
MaxFills == 2
MaxEventTicks == 7

\* ------------------------------------------------------------------------
\* Floating-point arithmetic
\* ------------------------------------------------------------------------
Powers == <<1, 10, 100, 1000, 10000, 100000, 1000000, 10000000, 100000000,
            1000000000>>

Pow10(n) == Powers[n + 1]

Abs(x) == IF x < 0 THEN 0 - x ELSE x

Sgn(x) == IF x < 0 THEN 0 - 1 ELSE IF x > 0 THEN 1 ELSE 0

MinInt(a, b) == IF a <= b THEN a ELSE b

MaxInt(a, b) == IF a >= b THEN a ELSE b

\* number of decimal digits of a > 0
Digits(a) ==
    IF a < 100000
    THEN IF a < 10 THEN 1 ELSE IF a < 100 THEN 2 ELSE IF a < 1000 THEN 3
         ELSE IF a < 10000 THEN 4 ELSE 5
    ELSE IF a < 1000000 THEN 6 ELSE IF a < 10000000 THEN 7
         ELSE IF a < 100000000 THEN 8 ELSE IF a < 1000000000 THEN 9 ELSE 10

\* n / d (n >= 0, d > 0) rounded to the nearest integer, ties to even
RoundHalfEven(n, d) ==
    LET q == n \div d
        r == n % d
    IN  IF 2 * r < d THEN q
        ELSE IF 2 * r > d THEN q + 1
        ELSE IF q % 2 = 0 THEN q ELSE q + 1

FZero == [m |-> 0, e |-> 0]

\* the float nearest to (n / d) * 10^e, d > 0: the quotient is scaled to at
\* least Prec digits, then rounded to exactly Prec digits
Norm(n, d, e) ==
    IF n = 0 THEN FZero
    ELSE LET k  == MaxInt(0, Prec - Digits(Abs(n)) + Digits(d))
             a  == Abs(n) * Pow10(k)
             j  == Digits(a \div d) - Prec
             mm == RoundHalfEven(a, d * Pow10(j))
         IN  IF mm >= Pow10(Prec)
             THEN [m |-> Sgn(n) * (mm \div 10), e |-> e - k + j + 1]
             ELSE [m |-> Sgn(n) * mm, e |-> e - k + j]

\* the decimal literal n * 10^e
Dec(n, e) == Norm(n, 1, e)

FNeg(x) == [m |-> 0 - x.m, e |-> x.e]

FMul(x, y) == Norm(x.m * y.m, 1, x.e + y.e)

FDiv(x, y) == Norm(x.m * Sgn(y.m), Abs(y.m), x.e - y.e)

FAdd(x, y) ==
    IF x.m = 0 THEN y
    ELSE IF y.m = 0 THEN x
    ELSE IF x.e - y.e > Prec + 1 THEN x
    ELSE IF y.e - x.e > Prec + 1 THEN y
    ELSE LET lo == MinInt(x.e, y.e)
         IN  Norm(x.m * Pow10(x.e - lo) + y.m * Pow10(y.e - lo), 1, lo)

FSub(x, y) == FAdd(x, FNeg(y))

\* |x| < |y| for nonzero floats: mantissas have Prec digits, so the exponent decides
MagLt(x, y) == x.e < y.e \/ (x.e = y.e /\ Abs(x.m) < Abs(y.m))

FLt(x, y) ==
    IF x.m < 0 THEN y.m >= 0 \/ MagLt(y, x)
    ELSE IF x.m = 0 THEN y.m > 0
    ELSE y.m > 0 /\ MagLt(x, y)
FLe(x, y) == x = y \/ FLt(x, y)
FGt(x, y) == FLt(y, x)
FGe(x, y) == FLe(y, x)
FMin(x, y) == IF FLt(y, x) THEN y ELSE x

\* the float literals of the source
TWO        == Dec(2, 0)
TEN        == Dec(10, 0)
HALF       == Dec(5, 0 - 1)
ONE        == Dec(1, 0)
CONF_50    == Dec(50, 0 - 2)
CONF_60    == Dec(60, 0 - 2)
CONF_80    == Dec(80, 0 - 2)
CONF_90    == Dec(90, 0 - 2)
CONF_95    == Dec(95, 0 - 2)
CONF_99    == Dec(99, 0 - 2)
SLOPE_30   == Dec(30, 0 - 2)
SLOPE_35   == Dec(35, 0 - 2)
MIN_SPREAD == Dec(2, 0 - 3)
HP_BULL    == Dec(10, 0 - 2)
HP_BEAR    == FNeg(Dec(5, 0 - 2))

\* ------------------------------------------------------------------------
\* Python values
\* ------------------------------------------------------------------------
\* None (also: a key the dict does not have); no float has this shape
None == [m |-> 0, e |-> 1]

\* truth value of a number or None: None and 0 are falsy
Truthy(x) == x.m # 0

\* a or b
PyOr(a, b) == IF Truthy(a) THEN a ELSE b

\* x > 0 for a number
Positive(x) == x.m > 0

\* str.upper() on the side strings the model feeds
Upper(s) == IF s = "buy" THEN "BUY" ELSE IF s = "sell" THEN "SELL" ELSE s

Last(s) == s[Len(s)]

\* stats without a historical_pattern
NoPattern == [avg_return_3d |-> None, confidence_level |-> "None",
              pattern_name |-> "None"]

\* a market tick without any field; mode "None" is Python's None; nulls are
\* the keys the dict has with the value None (dict.get gives None for them as
\* for an absent key, `in` and dict.get(key, default) tell them apart)
NoTick ==
    [mode |-> "None", pm_ask |-> None, op_bid |-> None, best_ask |-> None,
     best_bid |-> None, current_ask |-> None, current_bid |-> None,
     ask |-> None, bid |-> None, price |-> None, mid_price |-> None,
     pm_liquidity |-> None, op_liquidity |-> None, gas_cost_usd |-> None,
     position_size |-> None, has_position |-> FALSE,
     historical_pattern |-> NoPattern, nulls |-> {}]

\* key in market_state
HasKey(market_state, key, value) == value # None \/ key \in market_state.nulls

\* ------------------------------------------------------------------------
\* engine/backtest.py
\* ------------------------------------------------------------------------
VARIABLES
    initial_cash,   \* BacktestEngine.initial_cash
    cash,           \* BacktestEngine.cash
    position,       \* BacktestEngine.position
    equity_curve,   \* BacktestEngine.equity_curve
    trades,         \* BacktestEngine.trades
    peak_equity,    \* run(): local peak_equity
    max_drawdown,   \* run(): local max_drawdown
    pc,             \* where run() stands: idle, tick, exec, done, raised
    market_data,    \* the ticks run() has read so far from its argument
    pending,        \* the instructions of the current tick not yet executed
    runs,           \* number of run() calls started
    result,         \* the BacktestResult the last finished run() returned
    snaps,          \* per finished tick: cash, position and mark price then
    lastExec        \* the last _execute_order call: state before, outcome

engineVars == <<initial_cash, cash, position, equity_curve, trades, peak_equity,
                max_drawdown, pc, market_data, pending, runs, result, snaps,
                lastExec>>

\* OrderInstruction(side, size, price, meta)
OrderInstruction(side, size, price, meta) ==
    [side |-> side, size |-> size, price |-> price, meta |-> meta]

_get_execution_price(market_state, side) ==
    LET p == IF side = "BUY"
             THEN PyOr(market_state.best_ask, PyOr(market_state.pm_ask,
                  PyOr(market_state.ask, PyOr(market_state.price,
                       market_state.mid_price))))
             ELSE PyOr(market_state.best_bid, PyOr(market_state.op_bid,
                  PyOr(market_state.bid, PyOr(market_state.price,
                       market_state.mid_price))))
    IN  IF Truthy(p) /\ Positive(p) THEN p ELSE None

_get_mark_price(market_state) ==
    IF HasKey(market_state, "mid_price", market_state.mid_price)
    THEN market_state.mid_price
    ELSE LET b == PyOr(market_state.best_bid, PyOr(market_state.op_bid,
                  PyOr(market_state.bid, FZero)))
             a == PyOr(market_state.best_ask, PyOr(market_state.pm_ask,
                  PyOr(market_state.ask, FZero)))
         IN  IF Positive(b) /\ Positive(a) THEN FDiv(FAdd(b, a), TWO)
             ELSE PyOr(market_state.price, PyOr(b, PyOr(a, HALF)))

\* a rejection that still charges the account
RejectedCharged(c, p) == [ok |-> FALSE, cash |-> FSub(c, ONE), position |-> p]

\* an instruction that is skipped: nothing changes, no Trade
Rejected(c, p) == [ok |-> FALSE, cash |-> c, position |-> p]

\* a BUY branch that books the requested size when it has clamped the fill
ExecBuyRequested(instruction, exec_price, size0, tick, c, p) ==
    LET cost0   == FMul(size0, exec_price)
        clamped == FGt(cost0, c)
        size    == IF clamped THEN FDiv(c, exec_price) ELSE size0
        cost    == IF clamped THEN FMul(size, exec_price) ELSE cost0
    IN  IF clamped /\ ~Positive(size) THEN Rejected(c, p)
        ELSE [ok |-> TRUE, cash |-> FSub(c, cost), position |-> FAdd(p, size0),
              trade |-> [tick |-> tick, side |-> "BUY", price |-> exec_price,
                         size |-> size, cost |-> cost,
                         position_after |-> FAdd(p, size0),
                         cash_after |-> FSub(c, cost),
                         meta |-> instruction.meta]]

\* the BUY branch of _execute_order
ExecBuy(instruction, exec_price, size0, tick, c, p) ==
    LET cost0   == FMul(size0, exec_price)
        clamped == FGt(cost0, c)
        size    == IF clamped THEN FDiv(c, exec_price) ELSE size0
        cost    == IF clamped THEN FMul(size, exec_price) ELSE cost0
    IN  IF clamped /\ ~Positive(size) THEN Rejected(c, p)
        ELSE [ok |-> TRUE, cash |-> FSub(c, cost), position |-> FAdd(p, size),
              trade |-> [tick |-> tick, side |-> "BUY", price |-> exec_price,
                         size |-> size, cost |-> cost,
                         position_after |-> FAdd(p, size),
                         cash_after |-> FSub(c, cost),
                         meta |-> instruction.meta]]

\* a SELL branch that does not clamp the size to the position held
ExecSellUnclamped(instruction, exec_price, size0, tick, c, p) ==
    LET revenue == FMul(size0, exec_price)
    IN  [ok |-> TRUE, cash |-> FAdd(c, revenue), position |-> FSub(p, size0),
         trade |-> [tick |-> tick, side |-> "SELL", price |-> exec_price,
                    size |-> size0, cost |-> revenue,
                    position_after |-> FSub(p, size0),
                    cash_after |-> FAdd(c, revenue),
                    meta |-> instruction.meta]]

\* the SELL branch of _execute_order
ExecSell(instruction, exec_price, size0, tick, c, p) ==
    LET clamped == FGt(size0, p)
        size    == IF clamped THEN p ELSE size0
        revenue == FMul(size, exec_price)
    IN  IF clamped /\ ~Positive(size) THEN Rejected(c, p)
        ELSE [ok |-> TRUE, cash |-> FAdd(c, revenue), position |-> FSub(p, size),
              trade |-> [tick |-> tick, side |-> "SELL", price |-> exec_price,
                         size |-> size, cost |-> FNeg(FNeg(revenue)),
                         position_after |-> FSub(p, size),
                         cash_after |-> FAdd(c, revenue),
                         meta |-> instruction.meta]]

\* _execute_order on engine state (c, p): the new state and the Trade, if any
_execute_order(instruction, market_state, tick, c, p) ==
    LET side == Upper(instruction.side)
        size == instruction.size
        lim  == instruction.price
        exec_price == IF lim = None \/ ~Positive(lim)
                      THEN _get_execution_price(market_state, side) ELSE lim
    IN  IF ~Positive(size) THEN Rejected(c, p)
        ELSE IF exec_price = None \/ ~Positive(exec_price) THEN Rejected(c, p)
        ELSE IF side = "BUY" THEN ExecBuy(instruction, exec_price, size, tick, c, p)
        ELSE IF side = "SELL" THEN ExecSell(instruction, exec_price, size, tick, c, p)
        ELSE Rejected(c, p)

\* a win/loss count that judges the trades of both sides
WinLossAllSides(trs) ==
    LET judged == {i \in 2..Len(trs) : TRUE}
        won    == {i \in judged : FGt(trs[i].price, trs[i - 1].price)}
    IN  [winning |-> Cardinality(won), losing |-> Cardinality(judged \ won)]

\* the win/loss loop of _build_result: a SELL that is not the first trade is
\* compared with the trade recorded before it
WinLoss(trs) ==
    LET judged == {i \in 2..Len(trs) : trs[i].side = "SELL"}
        won    == {i \in judged : FGt(trs[i].price, trs[i - 1].price)}
    IN  [winning |-> Cardinality(won), losing |-> Cardinality(judged \ won)]

\* _build_result
_build_result(ic, c, p, curve, trs, mdd) ==
    LET final_equity == IF curve # <<>> THEN Last(curve) ELSE ic
    IN  [initial_cash |-> ic, final_cash |-> c, final_position |-> p,
         winning_trades |-> WinLoss(trs).winning,
         losing_trades |-> WinLoss(trs).losing,
         final_equity |-> final_equity,
         total_return |-> IF Positive(ic) THEN FDiv(FSub(final_equity, ic), ic)
                          ELSE FZero,
         total_trades |-> Len(trs), equity_curve |-> curve, trades |-> trs,
         max_drawdown |-> mdd]

NoResult == [total_trades |-> 0 - 1]
NoExec == [ok |-> FALSE]

\* the state _reset() leaves
ResetEngine ==
    /\ cash' = initial_cash
    /\ position' = FZero
    /\ equity_curve' = <<>>
    /\ trades' = <<>>

\* run([]): reset, then the early return for empty market data
RunEmpty ==
    /\ pc \in {"idle", "done", "raised"}
    /\ runs < MaxRuns
    /\ ResetEngine
    /\ runs' = runs + 1
    /\ market_data' = <<>>
    /\ snaps' = <<>>
    /\ pending' = <<>>
    /\ lastExec' = NoExec
    /\ result' = _build_result(initial_cash, initial_cash, FZero, <<>>, <<>>, FZero)
    /\ pc' = "done"
    /\ UNCHANGED <<initial_cash, peak_equity, max_drawdown>>

\* run(market_data) with market data: reset and enter the loop
RunBegin ==
    /\ pc \in {"idle", "done", "raised"}
    /\ runs < MaxRuns
    /\ ResetEngine
    /\ runs' = runs + 1
    /\ market_data' = <<>>
    /\ snaps' = <<>>
    /\ pending' = <<>>
    /\ lastExec' = NoExec
    /\ result' = NoResult
    /\ peak_equity' = initial_cash
    /\ max_drawdown' = FZero
    /\ pc' = "tick"
    /\ UNCHANGED initial_cash

\* loop step 1 with an arbitrary strategy: read the next tick, get its instructions
OnTick(market_state, instructions) ==
    /\ pc = "tick"
    /\ Len(market_data) < MaxTicks
    /\ market_data' = Append(market_data, market_state)
    /\ pending' = instructions
    /\ pc' = "exec"
    /\ UNCHANGED <<initial_cash, cash, position, equity_curve, trades, peak_equity,
                   max_drawdown, runs, result, snaps, lastExec>>

\* loop step 2: execute the next instruction of the tick
ExecuteOrder ==
    /\ pc = "exec"
    /\ pending # <<>>
    /\ LET r == _execute_order(Head(pending), Last(market_data),
                               Len(market_data) - 1, cash, position)
       IN  /\ cash' = r.cash
           /\ position' = r.position
           /\ trades' = IF r.ok THEN Append(trades, r.trade) ELSE trades
           /\ lastExec' = [ok |-> r.ok, instruction |-> Head(pending),
                           cash_before |-> cash, position_before |-> position]
    /\ pending' = Tail(pending)
    /\ UNCHANGED <<initial_cash, equity_curve, peak_equity, max_drawdown, pc,
                   market_data, runs, result, snaps>>

\* an equity sample that leaves the position out
EquityCashOnly(c, p, mark_price) == c

\* the equity run() appends for a tick
Equity(c, p, mark_price) == FAdd(c, FMul(p, mark_price))

\* loop steps 3 and 4: mark to market, sample equity, update the drawdown;
\* a mark price of None makes position * mark_price raise TypeError, which
\* leaves run()
SampleEquity ==
    /\ pc = "exec"
    /\ pending = <<>>
    /\ LET mark_price == _get_mark_price(Last(market_data))
           equity == Equity(cash, position, mark_price)
           peak == IF FGt(equity, peak_equity) THEN equity ELSE peak_equity
           drawdown == IF Positive(peak) THEN FDiv(FSub(peak, equity), peak)
                       ELSE FZero
       IN  IF mark_price = None
           THEN /\ pc' = "raised"
                /\ UNCHANGED <<equity_curve, peak_equity, max_drawdown, snaps>>
           ELSE /\ equity_curve' = Append(equity_curve, equity)
                /\ peak_equity' = peak
                /\ max_drawdown' = IF FGt(drawdown, max_drawdown) THEN drawdown
                                   ELSE max_drawdown
                /\ snaps' = Append(snaps, [cash |-> cash, position |-> position,
                                           mark_price |-> mark_price])
                /\ pc' = "tick"
    /\ UNCHANGED <<initial_cash, cash, position, trades, market_data, pending,
                   runs, result, lastExec>>

\* the loop ends when market_data is exhausted: build the result
RunEnd ==
    /\ pc = "tick"
    /\ market_data # <<>>
    /\ result' = _build_result(initial_cash, cash, position, equity_curve, trades,
                               max_drawdown)
    /\ pc' = "done"
    /\ UNCHANGED <<initial_cash, cash, position, equity_curve, trades, peak_equity,
                   max_drawdown, market_data, pending, runs, snaps, lastExec>>

\* ------------------------------------------------------------------------
\* strategies/ai_pm.py
\* ------------------------------------------------------------------------
VARIABLES
    _history,         \* _ai_pm_instance._history, the regime window
    USE_LLM_DEFAULT,  \* AI_PM_USE_LLM == "1" at import
    GEMINI_API_KEY,   \* whether GEMINI_API_KEY is set at import
    calls,            \* features of the decide() calls since the last reset
    wasReset,         \* reset_state() has been called after some decide()
    lastBase,         \* what the last decide() returned
    lastResult,       \* what the last decide_strategy() returned
    lastPath,         \* path of the last decide_strategy(): rule, llm, fallback,
                      \* nokey (the LLM was asked for and no API key is set)
    lastLLM           \* what the Gemini call of the last decide_strategy() did

pmVars == <<_history, USE_LLM_DEFAULT, GEMINI_API_KEY, calls, wasReset, lastBase,
            lastResult, lastPath, lastLLM>>

HORIZON == 5
LARGE_SPREAD == Dec(10, 0 - 2)
DEEP_DISCOUNT == Dec(42, 0 - 2)
VALID_STRATEGIES == {"ou_arb", "sniper"}
VALID_RISK_MODES == {"defensive", "normal", "aggressive"}

_extract_features(stats) ==
    LET pm_ask   == PyOr(stats.pm_ask, FZero)
        op_bid   == PyOr(stats.op_bid, FZero)
        best_ask == PyOr(stats.best_ask, PyOr(stats.current_ask, FZero))
        spread   == IF Positive(pm_ask) /\ Positive(op_bid)
                    THEN FSub(op_bid, pm_ask) ELSE FZero
    IN  [spread |-> spread, best_ask |-> best_ask, mode |-> stats.mode,
         is_arb_signal |-> FGt(spread, LARGE_SPREAD) \/ stats.mode = "arb",
         is_sniper_signal |-> (Positive(best_ask) /\ FLt(best_ask, DEEP_DISCOUNT))
                              \/ stats.mode = "sniper"]

\* a full window that drops the arriving record instead of the oldest
DropArriving(history, features) ==
    IF Len(history) >= HORIZON THEN history ELSE Append(history, features)

\* a window that keeps one record more than the horizon
KeepSix(history, features) ==
    IF Len(history) >= HORIZON + 1 THEN Append(Tail(history), features)
    ELSE Append(history, features)

\* deque(maxlen=horizon).append
_update_history(history, features) ==
    IF Len(history) >= HORIZON THEN Append(Tail(history), features)
    ELSE Append(history, features)

\* a tally that looks at the newest record only
CountArbNewest(history) == IF Last(history).is_arb_signal THEN 1 ELSE 0

\* number of records of the window with the given flag set
CountArb(history) ==
    Cardinality({i \in 1..Len(history) : history[i].is_arb_signal})

\* a tally that lets a sniper signal count only when no arb signal is older
CountSniperUnopposed(history) ==
    Cardinality({i \in 1..Len(history) :
                    /\ history[i].is_sniper_signal
                    /\ \A j \in 1..(i - 1) : ~history[j].is_arb_signal})

CountSniper(history) ==
    Cardinality({i \in 1..Len(history) : history[i].is_sniper_signal})

\* "{spread:.4f}": the number rounded to 4 decimals
Fmt4(x) ==
    IF x.e >= 0 - 4 THEN x
    ELSE Norm(Sgn(x.m) * RoundHalfEven(Abs(x.m), Pow10(0 - 4 - x.e)), 1, 0 - 4)

\* a reason string: its text, the numbers formatted into it, the notes appended
Reason(text, n, d, x) ==
    [text |-> text, n |-> n, d |-> d, x |-> x, note |-> "", llm |-> FALSE,
     hist |-> NoPattern]

Decision(strategy, risk, reason, confidence) ==
    [chosen_strategy |-> strategy, risk_mode |-> risk, reason |-> reason,
     confidence |-> confidence]

\* single-tick rules that look at the spread before the mode hints
SingleTickRulesSpreadFirst(features) ==
    IF FGt(features.spread, MIN_SPREAD)
    THEN Decision("ou_arb", "defensive",
                  Reason("Arbitrage spread detected", 0, 0, Fmt4(features.spread)),
                  FMin(FAdd(HALF, FMul(features.spread, TEN)),
                       CONF_99))
    ELSE IF features.mode = "arb"
    THEN Decision("ou_arb", "defensive",
                  Reason("Arbitrage opportunity detected", 0, 0, FZero), CONF_95)
    ELSE IF features.mode = "sniper"
    THEN Decision("sniper", "aggressive",
                  Reason("Trend sniper signal", 0, 0, FZero), CONF_80)
    ELSE IF Positive(features.best_ask)
    THEN Decision("sniper", "normal",
                  Reason("Sniper mode available, no arb opportunity", 0, 0, FZero),
                  CONF_60)
    ELSE Decision("ou_arb", "normal",
                  Reason("Default safety fallback", 0, 0, FZero), CONF_50)

\* decide(), case 3: the rules on the current tick alone
SingleTickRules(features) ==
    IF features.mode = "arb"
    THEN Decision("ou_arb", "defensive",
                  Reason("Arbitrage opportunity detected", 0, 0, FZero), CONF_95)
    ELSE IF features.mode = "sniper"
    THEN Decision("sniper", "aggressive",
                  Reason("Trend sniper signal", 0, 0, FZero), CONF_80)
    ELSE IF FGt(features.spread, MIN_SPREAD)
    THEN Decision("ou_arb", "defensive",
                  Reason("Arbitrage spread detected", 0, 0, Fmt4(features.spread)),
                  FMin(FAdd(HALF, FMul(features.spread, TEN)),
                       CONF_99))
    ELSE IF Positive(features.best_ask)
    THEN Decision("sniper", "normal",
                  Reason("Sniper mode available, no arb opportunity", 0, 0, FZero),
                  CONF_60)
    ELSE Decision("ou_arb", "normal",
                  Reason("Default safety fallback", 0, 0, FZero), CONF_50)

\* a decision that lets the tick's mode hint overrule the tally
RegimeDecisionHintFirst(history, features) ==
    IF features.mode # "None" THEN SingleTickRules(features)
    ELSE IF CountArb(history) > CountSniper(history)
    THEN Decision("ou_arb", "defensive",
                  Reason("Arb regime detected", CountArb(history), Len(history), FZero),
                  FMin(FAdd(CONF_60,
                            FMul(FDiv(Dec(CountArb(history), 0), Dec(Len(history), 0)),
                                 SLOPE_35)),
                       CONF_95))
    ELSE IF CountSniper(history) > CountArb(history)
    THEN Decision("sniper", "aggressive",
                  Reason("Sniper regime detected", CountSniper(history), Len(history),
                         FZero),
                  FMin(FAdd(CONF_60,
                            FMul(FDiv(Dec(CountSniper(history), 0), Dec(Len(history), 0)),
                                 SLOPE_30)),
                       CONF_90))
    ELSE SingleTickRules(features)

\* decide() after the window update: history is the window with the tick pushed
RegimeDecision(history, features) ==
    LET arb_count    == CountArb(history)
        sniper_count == CountSniper(history)
        history_len  == Len(history)
    IN  IF arb_count > sniper_count
        THEN Decision("ou_arb", "defensive",
                      Reason("Arb regime detected", arb_count, history_len, FZero),
                      FMin(FAdd(CONF_60,
                                FMul(FDiv(Dec(arb_count, 0), Dec(history_len, 0)),
                                     SLOPE_35)),
                           CONF_95))
        ELSE IF sniper_count > arb_count
        THEN Decision("sniper", "aggressive",
                      Reason("Sniper regime detected", sniper_count, history_len, FZero),
                      FMin(FAdd(CONF_60,
                                FMul(FDiv(Dec(sniper_count, 0), Dec(history_len, 0)),
                                     SLOPE_30)),
                           CONF_90))
        ELSE SingleTickRules(features)

\* a decision that loses confidence when it carries a fallback note
WithNoteCautious(res, fallback_note) ==
    IF fallback_note = "" THEN res
    ELSE [res EXCEPT !.reason.note = fallback_note, !.confidence = CONF_50]

WithNote(res, fallback_note) ==
    IF fallback_note = "" THEN res
    ELSE [res EXCEPT !.reason.note = fallback_note]

\* AIPortfolioManager.decide on a window, given the tick's features:
\* the new window and the decision
decide(history, features, fallback_note) ==
    LET h == _update_history(history, features)
    IN  [history |-> h, result |-> WithNote(RegimeDecision(h, features), fallback_note)]

\* a reset that keeps the window
KeepWindow(history) == history

\* AIPortfolioManager.reset_state: the window it leaves
reset_state(history) == <<>>

\* an adjustment whose bullish rule overrides ou_arb whatever the mode hint
AdjustByPatternAnyMode(res, stats) ==
    LET hp         == stats.historical_pattern
        avg_3d     == hp.avg_return_3d
        conf_level == hp.confidence_level
        adjust     == avg_3d # None /\ conf_level \in {"medium", "high"}
        bullish    == adjust /\ FGt(avg_3d, HP_BULL)
        bearish    == adjust /\ ~bullish /\ FLt(avg_3d, HP_BEAR)
        strategy   == IF bullish THEN "sniper" ELSE res.chosen_strategy
        risk       == IF bullish THEN "aggressive"
                      ELSE IF bearish THEN "defensive" ELSE res.risk_mode
        reason     == IF avg_3d # None /\ hp.pattern_name # "None"
                      THEN [res.reason EXCEPT !.hist = hp] ELSE res.reason
    IN  [res EXCEPT !.chosen_strategy = strategy, !.risk_mode = risk,
                    !.reason = reason]

\* decide_strategy_rule_based: the historical-pattern adjustment of a decision
AdjustByPattern(res, stats) ==
    LET hp         == stats.historical_pattern
        avg_3d     == hp.avg_return_3d
        conf_level == hp.confidence_level
        adjust     == avg_3d # None /\ conf_level \in {"medium", "high"}
        bullish    == adjust /\ FGt(avg_3d, HP_BULL)
        bearish    == adjust /\ ~bullish /\ FLt(avg_3d, HP_BEAR)
        strategy   == IF bullish /\ res.chosen_strategy = "ou_arb" /\ stats.mode = "None"
                      THEN "sniper" ELSE res.chosen_strategy
        risk       == IF bullish THEN "aggressive"
                      ELSE IF bearish THEN "defensive" ELSE res.risk_mode
        reason     == IF avg_3d # None /\ hp.pattern_name # "None"
                      THEN [res.reason EXCEPT !.hist = hp] ELSE res.reason
    IN  [res EXCEPT !.chosen_strategy = strategy, !.risk_mode = risk,
                    !.reason = reason]

\* a reply passed on as it came
PassReply(data) ==
    Decision(data.chosen_strategy, data.risk_mode,
             [Reason(data.reason, 0, 0, FZero) EXCEPT !.llm = TRUE],
             IF data.confidence = None THEN CONF_95 ELSE data.confidence)

\* decide_strategy_llm after a reply parsed as JSON: validate and normalize
NormalizeReply(data) ==
    LET chosen == IF data.chosen_strategy = "missing" THEN "ou_arb"
                  ELSE data.chosen_strategy
        risk   == IF data.risk_mode = "missing" THEN "normal" ELSE data.risk_mode
        text   == IF data.reason = "missing"
                  THEN "LLM decided without explicit reason." ELSE data.reason
    IN  Decision(IF chosen \notin VALID_STRATEGIES THEN "ou_arb" ELSE chosen,
                 IF risk \notin VALID_RISK_MODES THEN "normal" ELSE risk,
                 [Reason(text, 0, 0, FZero) EXCEPT !.llm = TRUE],
                 IF data.confidence = None THEN CONF_95 ELSE data.confidence)

\* decide_strategy: the note for a failed LLM call
FallbackNote(err) ==
    IF err = "404" THEN "LLM unavailable in this environment"
    ELSE IF err = "429" THEN "LLM quota limit (using rule-based)"
    ELSE "LLM unavailable in this environment"

NoDecision == Decision("None", "None", Reason("", 0, 0, FZero), FZero)

\* what the Gemini call can do: it raises (ok false, err the kind of message)
\* or it replies JSON data
Raises(err) ==
    [ok |-> FALSE, err |-> err,
     data |-> [chosen_strategy |-> "missing", risk_mode |-> "missing",
               reason |-> "missing", confidence |-> None]]
Replies(strategy, risk, reason, confidence) ==
    [ok |-> TRUE, err |-> "",
     data |-> [chosen_strategy |-> strategy, risk_mode |-> risk,
               reason |-> reason, confidence |-> confidence]]

\* no Gemini call was made
NoCall == Raises("not called")

\* the answers of the Gemini call that are tried: the three kinds of error
\* message, a valid reply without confidence, a reply with values outside the
\* enums, a reply without fields and with a confidence above 1
LLMOutcomes ==
    { Raises("404"), Raises("429"), Raises("other"),
      Replies("sniper", "aggressive", "deep discount", None),
      Replies("hold", "reckless", "missing", Dec(70, 0 - 2)),
      Replies("missing", "missing", "no fields", Dec(15, 0 - 1)) }

\* decide_strategy_rule_based on the shared window
decide_strategy_rule_based(stats, fallback_note, path, llm) ==
    LET f == _extract_features(stats)
        r == decide(_history, f, fallback_note)
    IN  /\ _history' = r.history
        /\ calls' = Append(calls, f)
        /\ lastBase' = r.result
        /\ lastResult' = AdjustByPattern(r.result, stats)
        /\ lastPath' = path
        /\ lastLLM' = llm

\* decide_strategy(stats, use_llm), the Gemini call answering with one of outcomes
decide_strategy(stats, use_llm, outcomes) ==
    /\ LET use == IF use_llm = "None" THEN USE_LLM_DEFAULT ELSE use_llm = "True"
       IN  IF ~use
           THEN decide_strategy_rule_based(stats, "", "rule", NoCall)
           ELSE IF ~GEMINI_API_KEY
           THEN decide_strategy_rule_based(stats, "", "nokey", NoCall)
           ELSE \E llm \in outcomes :
                   IF llm.ok
                   THEN /\ lastResult' = NormalizeReply(llm.data)
                        /\ lastBase' = NoDecision
                        /\ lastPath' = "llm"
                        /\ lastLLM' = llm
                        /\ UNCHANGED <<_history, calls>>
                   ELSE decide_strategy_rule_based(stats, FallbackNote(llm.err),
                                                   "fallback", llm)
    /\ UNCHANGED <<USE_LLM_DEFAULT, GEMINI_API_KEY, wasReset>>

\* the module-level reset_state()
ResetState ==
    /\ _history' = reset_state(_history)
    /\ calls' = <<>>
    /\ wasReset' = (wasReset \/ _history # <<>>)
    /\ UNCHANGED <<USE_LLM_DEFAULT, GEMINI_API_KEY, lastBase, lastResult, lastPath,
                   lastLLM>>

\* ------------------------------------------------------------------------
\* strategies/ou_arb.py: OUArbStrategy with its default parameters
\* ------------------------------------------------------------------------
min_profit_rate == Dec(5, 0 - 3)
min_spread_multiplier == Dec(5, 0 - 1)
DEFAULT_MAX_SIZE == Dec(100, 0)

\* dict.get(key, 0) for a number
GetOr0(x) == IF x = None THEN FZero ELSE x

\* an evaluator that wants the spread strictly above the threshold
OUArbStrategy_on_tick_strict(market_state) ==
    LET pm_ask        == market_state.pm_ask
        op_bid        == market_state.op_bid
        gross_spread  == FSub(op_bid, pm_ask)
        min_threshold == FMul(min_profit_rate, min_spread_multiplier)
        meta(platform, reason) ==
            [platform |-> platform, reason |-> reason,
             gross_spread |-> gross_spread,
             spread_pct |-> FDiv(gross_spread, pm_ask)]
    IN  IF pm_ask = None \/ op_bid = None THEN <<>>
        ELSE IF ~Positive(pm_ask) \/ ~Positive(op_bid) THEN <<>>
        ELSE IF FLe(gross_spread, min_threshold) THEN <<>>
        ELSE << OrderInstruction("BUY", DEFAULT_MAX_SIZE, pm_ask,
                                 meta("polymarket", "arb_buy_cheap")),
                OrderInstruction("SELL", DEFAULT_MAX_SIZE, op_bid,
                                 meta("opinion", "arb_sell_expensive")) >>

OUArbStrategy_on_tick(market_state) ==
    LET pm_ask        == market_state.pm_ask
        op_bid        == market_state.op_bid
        gross_spread  == FSub(op_bid, pm_ask)
        min_threshold == FMul(min_profit_rate, min_spread_multiplier)
        pm_liquidity  == GetOr0(market_state.pm_liquidity)
        op_liquidity  == GetOr0(market_state.op_liquidity)
        max_size      == IF Positive(pm_liquidity) /\ Positive(op_liquidity)
                         THEN FMin(pm_liquidity, op_liquidity)
                         ELSE DEFAULT_MAX_SIZE
        meta(platform, reason) ==
            [platform |-> platform, reason |-> reason,
             gross_spread |-> gross_spread,
             spread_pct |-> FDiv(gross_spread, pm_ask)]
    IN  IF pm_ask = None \/ op_bid = None THEN <<>>
        ELSE IF ~Positive(pm_ask) \/ ~Positive(op_bid) THEN <<>>
        ELSE IF FLt(gross_spread, min_threshold) THEN <<>>
        ELSE << OrderInstruction("BUY", max_size, pm_ask,
                                 meta("polymarket", "arb_buy_cheap")),
                OrderInstruction("SELL", max_size, op_bid,
                                 meta("opinion", "arb_sell_expensive")) >>

\* is_opportunity raises TypeError when it compares a null price with 0:
\* dict.get(key, 0) gives None for a key that is present with the value None
OUArbStrategy_is_opportunity_raises(market_state) ==
    \/ "pm_ask" \in market_state.nulls
    \/ Positive(market_state.pm_ask) /\ "op_bid" \in market_state.nulls

OUArbStrategy_is_opportunity(market_state) ==
    LET pm_ask == GetOr0(market_state.pm_ask)
        op_bid == GetOr0(market_state.op_bid)
    IN  IF ~Positive(pm_ask) \/ ~Positive(op_bid) THEN FALSE
        ELSE FGe(FSub(op_bid, pm_ask), FMul(min_profit_rate, min_spread_multiplier))

\* ------------------------------------------------------------------------
\* strategies/sniper.py: SniperStrategy with its default parameters
\* ------------------------------------------------------------------------
target_price == Dec(50, 0 - 2)
min_gap == Dec(2, 0 - 2)
position_size == Dec(50, 0)

\* an evaluator that wants the gap strictly above min_gap
SniperStrategy_on_tick_strict(market_state) ==
    LET best_ask     == PyOr(market_state.best_ask, market_state.current_ask)
        gas_cost_usd == GetOr0(market_state.gas_cost_usd)
        size         == IF market_state.position_size = None THEN position_size
                        ELSE market_state.position_size
        price_gap    == FSub(target_price, best_ask)
        shares       == FDiv(size, best_ask)
        expected_profit == FSub(FMul(shares, target_price), FAdd(size, gas_cost_usd))
    IN  IF best_ask = None \/ ~Positive(best_ask) THEN <<>>
        ELSE IF FLe(price_gap, min_gap) THEN <<>>
        ELSE IF ~Positive(expected_profit) THEN <<>>
        ELSE << OrderInstruction("BUY", shares, best_ask,
                    [strategy |-> "sniper", reason |-> "sniper_entry"]) >>

SniperStrategy_on_tick(market_state) ==
    LET best_ask     == PyOr(market_state.best_ask, market_state.current_ask)
        best_bid     == PyOr(market_state.best_bid, market_state.current_bid)
        gas_cost_usd == GetOr0(market_state.gas_cost_usd)
        size         == IF market_state.position_size = None THEN position_size
                        ELSE market_state.position_size
        price_gap    == FSub(target_price, best_ask)
        shares       == FDiv(size, best_ask)
        expected_profit == FSub(FMul(shares, target_price), FAdd(size, gas_cost_usd))
    IN  IF best_ask = None \/ ~Positive(best_ask) THEN <<>>
        ELSE IF market_state.has_position /\ best_bid # None
                /\ FGt(best_bid, target_price)
        THEN << OrderInstruction("SELL", FDiv(size, best_bid), best_bid,
                    [strategy |-> "sniper", reason |-> "take_profit",
                     target_price |-> target_price,
                     price_gap |-> FSub(best_bid, target_price)]) >>
        ELSE IF FLt(price_gap, min_gap) THEN <<>>
        ELSE IF ~Positive(expected_profit) THEN <<>>
        ELSE << OrderInstruction("BUY", shares, best_ask,
                    [strategy |-> "sniper", reason |-> "sniper_entry",
                     target_price |-> target_price, price_gap |-> price_gap,
                     price_gap_pct |-> FMul(FDiv(price_gap, target_price),
                                            Dec(100, 0)),
                     expected_profit |-> expected_profit]) >>

\* calculate_opportunity(current_ask, gas_cost_usd)["has_opportunity"], the
\* trade size being the strategy's default
calculate_opportunity(current_ask, gas_cost_usd) ==
    LET price_gap       == FSub(target_price, current_ask)
        shares_acquired == IF Positive(current_ask)
                           THEN FDiv(position_size, current_ask) ELSE FZero
        expected_value  == FMul(shares_acquired, target_price)
        total_cost      == FAdd(position_size, gas_cost_usd)
        expected_profit == FSub(expected_value, total_cost)
    IN  FGe(price_gap, min_gap) /\ Positive(expected_profit) /\ Positive(current_ask)

\* is_opportunity raises TypeError when best_ask is falsy and current_ask is
\* present with the value None: current_ask <= 0 compares None with 0
SniperStrategy_is_opportunity_raises(market_state) ==
    /\ ~Truthy(market_state.best_ask)
    /\ "current_ask" \in market_state.nulls

SniperStrategy_is_opportunity(market_state) ==
    LET current_ask == PyOr(market_state.best_ask, GetOr0(market_state.current_ask))
        gas_cost    == GetOr0(market_state.gas_cost_usd)
    IN  IF ~Positive(current_ask) THEN FALSE
        ELSE calculate_opportunity(current_ask, gas_cost)

\* ------------------------------------------------------------------------
\* strategies/router.py: StrategyRouter with its default child strategies
\* ------------------------------------------------------------------------
VARIABLES
    last_routing_mode,  \* StrategyRouter.last_routing_mode
    last_decision,      \* StrategyRouter.last_decision
    routing_stats       \* StrategyRouter.routing_stats

routerVars == <<last_routing_mode, last_decision, routing_stats>>

_check_ou_opportunity(market_state) ==
    IF market_state.pm_ask = None \/ market_state.op_bid = None THEN FALSE
    ELSE IF ~Positive(market_state.pm_ask) \/ ~Positive(market_state.op_bid) THEN FALSE
    ELSE OUArbStrategy_is_opportunity(market_state)

_check_sniper_opportunity(market_state) ==
    LET best_ask == PyOr(market_state.best_ask, market_state.current_ask)
    IN  IF best_ask = None \/ ~Positive(best_ask) THEN FALSE
        ELSE SniperStrategy_is_opportunity(market_state)

\* an annotation that names the route and leaves the decision out
AnnotateRouteOnly(orders, decision, mode) ==
    [i \in 1..Len(orders) |->
        [orders[i] EXCEPT !.meta =
            [routed_by |-> "router", routing_mode |-> mode] @@ @]]

\* the metadata the router adds to each order of a routed strategy
Annotate(orders, decision, mode) ==
    [i \in 1..Len(orders) |->
        [orders[i] EXCEPT !.meta =
            [routed_by |-> "router", routing_mode |-> mode,
             ai_reason |-> decision.reason, ai_risk_mode |-> decision.risk_mode,
             ai_confidence |-> decision.confidence] @@ @]]

_route_to_ou(decision, market_state) ==
    [mode |-> "ou_arb",
     orders |-> Annotate(OUArbStrategy_on_tick(market_state), decision, "ou_arb")]

_route_to_sniper(decision, market_state) ==
    [mode |-> "sniper",
     orders |-> Annotate(SniperStrategy_on_tick(market_state), decision, "sniper")]

NotRouted == [mode |-> "none", orders |-> <<>>]

\* a router that turns to the other strategy when the chosen one has nothing
RouteWithFallback(decision, market_state) ==
    IF decision.chosen_strategy = "ou_arb"
    THEN IF _check_ou_opportunity(market_state)
         THEN _route_to_ou(decision, market_state)
         ELSE IF _check_sniper_opportunity(market_state)
         THEN _route_to_sniper(decision, market_state) ELSE NotRouted
    ELSE IF decision.chosen_strategy = "sniper"
    THEN IF _check_sniper_opportunity(market_state)
         THEN _route_to_sniper(decision, market_state)
         ELSE IF _check_ou_opportunity(market_state)
         THEN _route_to_ou(decision, market_state) ELSE NotRouted
    ELSE NotRouted

\* StrategyRouter.on_tick once choose_strategy has the decision: the routing
\* mode it records and the orders it returns
StrategyRouter_on_tick(decision, market_state) ==
    IF decision.chosen_strategy = "ou_arb"
    THEN IF _check_ou_opportunity(market_state)
         THEN _route_to_ou(decision, market_state) ELSE NotRouted
    ELSE IF decision.chosen_strategy = "sniper"
    THEN IF _check_sniper_opportunity(market_state)
         THEN _route_to_sniper(decision, market_state) ELSE NotRouted
    ELSE NotRouted

\* a counter update that counts the tick twice
CountedTwice(stats, mode) == [stats EXCEPT ![mode] = @ + 2]

\* self.routing_stats[mode] += 1
Counted(stats, mode) == [stats EXCEPT ![mode] = @ + 1]

\* StrategyRouter.get_routing_stats
get_routing_stats(stats) ==
    LET total == stats.ou_arb + stats.sniper + stats.none
        pct(n) == IF total > 0
                  THEN FMul(FDiv(Dec(n, 0), Dec(total, 0)), Dec(100, 0))
                  ELSE FZero
    IN  [total_ticks |-> total, ou_arb_count |-> stats.ou_arb,
         sniper_count |-> stats.sniper, no_action_count |-> stats.none,
         ou_arb_pct |-> pct(stats.ou_arb), sniper_pct |-> pct(stats.sniper),
         no_action_pct |-> pct(stats.none)]

\* StrategyRouter.get_last_decision
get_last_decision == last_decision

\* ------------------------------------------------------------------------
\* old/core: OrderBook, the levels of one venue's book and the liquidity
\* model of the shared backtest engine
\* ------------------------------------------------------------------------
VARIABLES
    ask_levels,            \* [(price, qty)], best ask first
    bid_levels,            \* [(price, qty)], best bid first
    liquidity_crisis,      \* the book's crisis flag
    _initial_ask_levels,   \* the ask levels the book was generated with
    _initial_bid_levels,   \* the bid levels the book was generated with
    last_fill,             \* arguments and return value of the last fill
    fills,                 \* number of fills so far
    tick_in_event          \* the tick of the event _execute_opportunity is at

bookVars == <<ask_levels, bid_levels, liquidity_crisis, _initial_ask_levels,
              _initial_bid_levels, last_fill, fills, tick_in_event>>

NoFill == [side |-> "none", quantity |-> FZero, filled |-> FZero,
           avg_price |-> FZero, total_cost |-> FZero, slippage |-> FZero]

\* no OrderBook has been constructed
NoBook ==
    /\ ask_levels = <<>>
    /\ bid_levels = <<>>
    /\ liquidity_crisis = FALSE
    /\ _initial_ask_levels = <<>>
    /\ _initial_bid_levels = <<>>
    /\ last_fill = NoFill
    /\ fills = 0
    /\ tick_in_event = 0

\* sum(qty for _, qty in levels)
RECURSIVE get_total_liquidity(_)
get_total_liquidity(levels) ==
    IF levels = <<>> THEN FZero
    ELSE FAdd(get_total_liquidity(SubSeq(levels, 1, Len(levels) - 1)),
              Last(levels).qty)

\* the fill loop, from level i on (i counted from 1, so the source's i + 1 is
\* i here): fill = min(remaining, available) at a price worsened by the level
RECURSIVE FillLoop(_, _, _, _, _, _)
FillLoop(levels, side, i, remaining, total_cost, consumed) ==
    IF i > Len(levels) \/ FLe(remaining, FZero)
    THEN [remaining |-> remaining, total_cost |-> total_cost,
          consumed |-> consumed]
    ELSE LET level_penalty == FAdd(ONE, FMul(Dec(1, 0 - 3), Dec(i, 0)))
             adj_price == IF side = "BUY"
                          THEN FMul(levels[i].price, level_penalty)
                          ELSE FDiv(levels[i].price, level_penalty)
             fill == FMin(remaining, levels[i].qty)
         IN  FillLoop(levels, side, i + 1, FSub(remaining, fill),
                      FAdd(total_cost, FMul(fill, adj_price)),
                      Append(consumed, [i |-> i, qty |-> fill]))

\* the update loop over reversed(consumed), the k first entries still to do:
\* a level left with at most 0.01 is popped (levels.pop(i)), any other level
\* keeps what is left
RECURSIVE UpdateLevels(_, _, _)
UpdateLevels(levels, consumed, k) ==
    IF k = 0 THEN levels
    ELSE LET i    == consumed[k].i
             left == FSub(levels[i].qty, consumed[k].qty)
         IN  UpdateLevels(IF FLe(left, Dec(1, 0 - 2))
                          THEN SubSeq(levels, 1, i - 1)
                                  \o SubSeq(levels, i + 1, Len(levels))
                          ELSE [levels EXCEPT ![i].qty = left],
                          consumed, k - 1)

\* OrderBook.consume_liquidity_with_exponential_slippage(side, quantity, _):
\* levels is the book's own list, or under liquidity_crisis a new list with
\* every quantity times 0.2; the update loop writes to the list the fill
\* worked on, which under liquidity_crisis is not the book's list
consume_liquidity_with_exponential_slippage(side, quantity) ==
    LET book == IF side = "BUY" THEN ask_levels ELSE bid_levels
    IN  /\ fills' = fills + 1
        /\ IF book = <<>>
           THEN /\ last_fill' = [NoFill EXCEPT !.side = side, !.quantity = quantity]
                /\ UNCHANGED <<ask_levels, bid_levels>>
           ELSE LET levels        == IF liquidity_crisis
                                     THEN [i \in 1..Len(book) |->
                                              [price |-> book[i].price,
                                               qty   |-> FMul(book[i].qty, Dec(2, 0 - 1))]]
                                     ELSE book
                    initial_price == levels[1].price
                    w             == FillLoop(levels, side, 1, quantity, FZero, <<>>)
                    updated       == UpdateLevels(levels, w.consumed, Len(w.consumed))
                    filled        == FSub(quantity, w.remaining)
                    avg_price     == IF Positive(filled)
                                     THEN FDiv(w.total_cost, filled) ELSE FZero
                    diff          == FSub(avg_price, initial_price)
                    slippage      == IF Positive(filled)
                                     THEN FMul([m |-> Abs(diff.m), e |-> diff.e], filled)
                                     ELSE FZero
                    written       == IF liquidity_crisis THEN book ELSE updated
                IN  /\ last_fill' = [side |-> side, quantity |-> quantity,
                                     filled |-> filled, avg_price |-> avg_price,
                                     total_cost |-> w.total_cost,
                                     slippage |-> slippage]
                    /\ ask_levels' = IF side = "BUY" THEN written ELSE ask_levels
                    /\ bid_levels' = IF side = "BUY" THEN bid_levels ELSE written
        /\ UNCHANGED <<liquidity_crisis, _initial_ask_levels, _initial_bid_levels>>

\* one side of replenish_liquidity: level i of the book moves toward level i
\* of the initial levels, times rng.uniform(0.9, 1.1), and is at least 20% of
\* that initial quantity; an initial level the book has no index for is skipped
Replenished(levels, initial, replenish_rate, jitter) ==
    [i \in 1..Len(levels) |->
        IF i <= Len(initial)
        THEN LET current_qty == levels[i].qty
                 init_qty    == initial[i].qty
                 restored    == FMul(FAdd(current_qty,
                                          FMul(FSub(init_qty, current_qty),
                                               replenish_rate)),
                                     jitter[i])
                 floor       == FMul(init_qty, Dec(2, 0 - 1))
             IN  [price |-> levels[i].price,
                  qty   |-> IF FGt(floor, restored) THEN floor ELSE restored]
        ELSE levels[i]]

\* OrderBook.replenish_liquidity(rng, replenish_rate): returns at once on a
\* book without initial ask levels, bid side included
replenish_liquidity(replenish_rate, ask_jitter, bid_jitter) ==
    /\ IF _initial_ask_levels = <<>>
       THEN UNCHANGED <<ask_levels, bid_levels>>
       ELSE /\ ask_levels' = Replenished(ask_levels, _initial_ask_levels,
                                         replenish_rate, ask_jitter)
            /\ bid_levels' = Replenished(bid_levels, _initial_bid_levels,
                                         replenish_rate, bid_jitter)
    /\ UNCHANGED <<liquidity_crisis, _initial_ask_levels, _initial_bid_levels,
                   last_fill, fills>>

\* ------------------------------------------------------------------------
\* A caller that runs one engine, driving a StrategyRouter, on the same
\* market data several times
\* ------------------------------------------------------------------------
VARIABLES
    input,     \* the market_data every run() call is given
    returned   \* the BacktestResults returned so far, in order

driverVars == <<input, returned>>

\* loop step 1 of run() with a StrategyRouter as the strategy
RouterTick ==
    /\ pc = "tick"
    /\ Len(market_data) < Len(input)
    /\ LET market_state == input[Len(market_data) + 1]
       IN  /\ decide_strategy(market_state, "None", LLMOutcomes)
           /\ last_decision' = lastResult'
           /\ LET r == StrategyRouter_on_tick(lastResult', market_state)
              IN  /\ last_routing_mode' = r.mode
                  /\ routing_stats' = Counted(routing_stats, r.mode)
                  /\ OnTick(market_state, r.orders)
    /\ UNCHANGED <<driverVars, bookVars>>

RunInputEmpty ==
    /\ input = <<>>
    /\ RunEmpty
    /\ returned' = Append(returned, result')
    /\ UNCHANGED <<pmVars, routerVars, input, bookVars>>

RunInputBegin ==
    /\ input # <<>>
    /\ RunBegin
    /\ UNCHANGED <<pmVars, routerVars, driverVars, bookVars>>

RunInputEnd ==
    /\ Len(market_data) = Len(input)
    /\ RunEnd
    /\ returned' = Append(returned, result')
    /\ UNCHANGED <<pmVars, routerVars, input, bookVars>>

\* on_tick of the StrategyRouter of a second backtest: choose_strategy calls
\* the module-level decide_strategy, which works on _ai_pm_instance, the one
\* AIPortfolioManager of the process; the second backtest's own router and
\* engine are objects of their own and are not part of the state
OtherRouterTick(market_state) ==
    /\ returned = <<>>
    /\ Len(calls) < Len(market_data) + MaxOther
    /\ decide_strategy(market_state, "None", LLMOutcomes)
    /\ UNCHANGED <<engineVars, routerVars, driverVars, bookVars>>

\* StrategyRouter.reset_stats, called between runs
ResetStats ==
    /\ pc \in {"idle", "done", "raised"}
    /\ routing_stats' = [ou_arb |-> 0, sniper |-> 0, none |-> 0]
    /\ last_routing_mode' = "none"
    /\ last_decision' = NoDecision
    /\ UNCHANGED <<engineVars, pmVars, driverVars, bookVars>>

\* ------------------------------------------------------------------------
\* Inputs of the engine specification
\* ------------------------------------------------------------------------
InitialCashSet == {Dec(999, 0 - 2), FZero}

EngineTicks ==
    { [NoTick EXCEPT !.best_ask = Dec(45, 0 - 2), !.best_bid = Dec(44, 0 - 2)],
      [NoTick EXCEPT !.price = Dec(99, 0 - 2)],
      NoTick }

BuyAll   == OrderInstruction("BUY", Dec(1000, 0), None, [reason |-> "all_in"])
BuyLimit == OrderInstruction("buy", Dec(10, 0), Dec(30, 0 - 2), [reason |-> "limit"])
SellSome == OrderInstruction("SELL", Dec(5, 0), None, [reason |-> "some"])
SellAll  == OrderInstruction("SELL", Dec(1000, 0), Dec(54, 0 - 2), [reason |-> "all_out"])
BadSize  == OrderInstruction("BUY", FNeg(Dec(1, 0)), None, [reason |-> "bad_size"])
BadSide  == OrderInstruction("HOLD", Dec(1, 0), Dec(50, 0 - 2), [reason |-> "bad_side"])
\* a positive size below the resolution of the cash and position it meets
BuyDust  == OrderInstruction("BUY", Dec(1, 0 - 9), Dec(30, 0 - 2), [reason |-> "dust"])

InstructionLists ==
    { <<>>, <<BuyAll>>, <<BuyLimit, SellSome>>, <<SellAll, BadSize>>,
      <<BadSide, BuyLimit, BuyDust>> }

\* the engine as constructed with the given initial cash
EngineConstructed(ic) ==
    /\ initial_cash = ic
    /\ cash = initial_cash
    /\ position = FZero
    /\ equity_curve = <<>>
    /\ trades = <<>>
    /\ peak_equity = FZero
    /\ max_drawdown = FZero
    /\ pc = "idle"
    /\ market_data = <<>>
    /\ pending = <<>>
    /\ runs = 0
    /\ result = NoResult
    /\ snaps = <<>>
    /\ lastExec = NoExec

\* the router as constructed
RouterConstructed ==
    /\ last_routing_mode = "none"
    /\ last_decision = NoDecision
    /\ routing_stats = [ou_arb |-> 0, sniper |-> 0, none |-> 0]

\* ------------------------------------------------------------------------
\* Inputs of the decision specifications
\* ------------------------------------------------------------------------
ArbOnly    == [NoTick EXCEPT !.mode = "arb"]
SniperOnly == [NoTick EXCEPT !.mode = "sniper"]
\* an ask above the deep-discount threshold: no signal, the sniper rule applies
Quiet      == [NoTick EXCEPT !.best_ask = Dec(45, 0 - 2)]
\* a wide spread and a deep discount at once
BothSignals ==
    [NoTick EXCEPT !.pm_ask = Dec(40, 0 - 2), !.op_bid = Dec(90, 0 - 2),
                   !.best_ask = Dec(40, 0 - 2)]
\* a spread above the minimum and below the regime threshold
SmallSpread ==
    [NoTick EXCEPT !.pm_ask = Dec(40, 0 - 2), !.op_bid = Dec(45, 0 - 2)]
\* the widest spread two prices in (0, 1) can have
HugeSpread ==
    [NoTick EXCEPT !.pm_ask = Dec(1, 0 - 2), !.op_bid = Dec(99, 0 - 2)]

Bullish == [avg_return_3d |-> Dec(15, 0 - 2), confidence_level |-> "high",
            pattern_name |-> "ad_upturn"]
Bearish == [avg_return_3d |-> FNeg(Dec(8, 0 - 2)), confidence_level |-> "medium",
            pattern_name |-> "None"]

\* the ticks of the window specification: no historical pattern
WindowStats == { ArbOnly, SniperOnly, NoTick, Quiet, BothSignals }

\* the ticks of the all-paths specification
DecideStats ==
    { SmallSpread, HugeSpread,
      [NoTick EXCEPT !.historical_pattern = Bullish],
      [ArbOnly EXCEPT !.historical_pattern = Bullish],
      [SniperOnly EXCEPT !.historical_pattern = Bearish] }

\* the decision engine as the module is imported: no instance, empty window
PMImported ==
    /\ _history = <<>>
    /\ calls = <<>>
    /\ wasReset = FALSE
    /\ lastBase = NoDecision
    /\ lastResult = NoDecision
    /\ lastPath = "none"
    /\ lastLLM = NoCall

\* ------------------------------------------------------------------------
\* Inputs of the repeated-run specification
\* ------------------------------------------------------------------------
\* a tradable arbitrage quote
ArbQuote ==
    [NoTick EXCEPT !.pm_ask = Dec(40, 0 - 2), !.op_bid = Dec(55, 0 - 2)]
\* a deep discount
SniperDeep ==
    [NoTick EXCEPT !.best_ask = Dec(30, 0 - 2), !.best_bid = Dec(29, 0 - 2)]

\* a tick whose mid_price is null
NullMid == [NoTick EXCEPT !.nulls = {"mid_price"}]

RouterTicks == { Quiet, ArbOnly, ArbQuote, SniperDeep, NullMid }

RunInputs == UNION { [1..n -> RouterTicks] : n \in 0..MaxTicks }

vars == <<engineVars, pmVars, routerVars, driverVars, bookVars>>

\* ------------------------------------------------------------------------
\* The execution engine driven by an arbitrary strategy
\* ------------------------------------------------------------------------
InitEngine ==
    /\ \E ic \in InitialCashSet : EngineConstructed(ic)
    /\ PMImported
    /\ USE_LLM_DEFAULT = FALSE
    /\ GEMINI_API_KEY = FALSE
    /\ RouterConstructed
    /\ input = <<>>
    /\ returned = <<>>
    /\ NoBook

NextEngine ==
    \/ RunEmpty /\ UNCHANGED <<pmVars, routerVars, driverVars, bookVars>>
    \/ RunBegin /\ UNCHANGED <<pmVars, routerVars, driverVars, bookVars>>
    \/ \E ms \in EngineTicks, ins \in InstructionLists :
          OnTick(ms, ins) /\ UNCHANGED <<pmVars, routerVars, driverVars, bookVars>>
    \/ ExecuteOrder /\ UNCHANGED <<pmVars, routerVars, driverVars, bookVars>>
    \/ SampleEquity /\ UNCHANGED <<pmVars, routerVars, driverVars, bookVars>>
    \/ RunEnd /\ UNCHANGED <<pmVars, routerVars, driverVars, bookVars>>

SpecEngine == InitEngine /\ [][NextEngine]_vars

\* ------------------------------------------------------------------------
\* The decision engine on its rule-based path: the regime window
\* ------------------------------------------------------------------------
InitPM ==
    /\ EngineConstructed(FZero)
    /\ PMImported
    /\ USE_LLM_DEFAULT = FALSE
    /\ GEMINI_API_KEY = FALSE
    /\ RouterConstructed
    /\ input = <<>>
    /\ returned = <<>>
    /\ NoBook

NextPM ==
    \/ \E stats \in WindowStats :
          /\ Len(calls) < MaxCalls
          /\ decide_strategy(stats, "None", LLMOutcomes)
          /\ UNCHANGED <<engineVars, routerVars, driverVars, bookVars>>
    \/ ResetState /\ UNCHANGED <<engineVars, routerVars, driverVars, bookVars>>

SpecPM == InitPM /\ [][NextPM]_vars

\* ------------------------------------------------------------------------
\* The decision engine on all its paths: rule-based, LLM, fallback
\* ------------------------------------------------------------------------
InitDecide ==
    /\ EngineConstructed(FZero)
    /\ PMImported
    /\ USE_LLM_DEFAULT \in BOOLEAN
    /\ GEMINI_API_KEY \in BOOLEAN
    /\ RouterConstructed
    /\ input = <<>>
    /\ returned = <<>>
    /\ NoBook

NextDecide ==
    \/ \E stats \in DecideStats, use_llm \in {"None", "True", "False"} :
          /\ Len(calls) < MaxDecide
          /\ decide_strategy(stats, use_llm, LLMOutcomes)
          /\ UNCHANGED <<engineVars, routerVars, driverVars, bookVars>>
    \/ ResetState /\ UNCHANGED <<engineVars, routerVars, driverVars, bookVars>>

SpecDecide == InitDecide /\ [][NextDecide]_vars

\* ------------------------------------------------------------------------
\* One engine and router run repeatedly on the same market data
\* ------------------------------------------------------------------------
InitRun ==
    /\ \E ic \in InitialCashSet : EngineConstructed(ic)
    /\ PMImported
    /\ USE_LLM_DEFAULT = FALSE
    /\ GEMINI_API_KEY = FALSE
    /\ RouterConstructed
    /\ input \in RunInputs
    /\ returned = <<>>
    /\ NoBook

NextRun ==
    \/ RunInputEmpty
    \/ RunInputBegin
    \/ RouterTick
    \/ ExecuteOrder /\ UNCHANGED <<pmVars, routerVars, driverVars, bookVars>>
    \/ SampleEquity /\ UNCHANGED <<pmVars, routerVars, driverVars, bookVars>>
    \/ RunInputEnd
    \/ ResetStats

SpecRun == InitRun /\ [][NextRun]_vars

\* ------------------------------------------------------------------------
\* The rule-based path called once, on any window the regime memory can hold
\* ------------------------------------------------------------------------
\* the windows: up to HORIZON records of arb-only, sniper-only and signal-free
\* ticks
RuleWindows ==
    UNION { [1..n -> {_extract_features(s) : s \in {ArbOnly, SniperOnly, NoTick}}] :
            n \in 0..HORIZON }

\* the ticks: every mode hint with every kind of prices (none, a spread below
\* the low bar, one above it, one above the regime threshold, an ask above
\* and one below the deep discount) and every kind of historical pattern
RuleStats ==
    { [s EXCEPT !.mode = mode, !.historical_pattern = hp] :
        s \in { NoTick,
                [NoTick EXCEPT !.pm_ask = Dec(400, 0 - 3), !.op_bid = Dec(401, 0 - 3)],
                SmallSpread, HugeSpread, Quiet, SniperDeep },
        mode \in {"None", "arb", "sniper"},
        hp \in { NoPattern, Bearish,
                 [Bearish EXCEPT !.confidence_level = "low"],
                 [Bullish EXCEPT !.avg_return_3d = HP_BULL] }
               \cup { [Bullish EXCEPT !.confidence_level = level] :
                        level \in {"high", "medium", "low", "None"} } }

InitRule ==
    /\ EngineConstructed(FZero)
    /\ _history \in RuleWindows
    /\ calls = _history
    /\ wasReset = FALSE
    /\ lastBase = NoDecision
    /\ lastResult = NoDecision
    /\ lastPath = "none"
    /\ lastLLM = NoCall
    /\ USE_LLM_DEFAULT = FALSE
    /\ GEMINI_API_KEY = FALSE
    /\ RouterConstructed
    /\ input = <<>>
    /\ returned = <<>>
    /\ NoBook

\* decide_strategy(stats, use_llm=False), once
NextRule ==
    \E stats \in RuleStats :
        /\ input = <<>>
        /\ input' = <<stats>>
        /\ decide_strategy(stats, "False", LLMOutcomes)
        /\ UNCHANGED <<engineVars, routerVars, returned, bookVars>>

SpecRule == InitRule /\ [][NextRule]_vars

\* ------------------------------------------------------------------------
\* Two backtests in one process, each with its own engine and router: the
\* run of the first, interleaved with the ticks of the second
\* ------------------------------------------------------------------------
NextTwo ==
    \/ RunInputEmpty /\ returned = <<>>
    \/ RunInputBegin /\ returned = <<>>
    \/ RouterTick
    \/ ExecuteOrder /\ UNCHANGED <<pmVars, routerVars, driverVars, bookVars>>
    \/ SampleEquity /\ UNCHANGED <<pmVars, routerVars, driverVars, bookVars>>
    \/ RunInputEnd
    \/ \E market_state \in {ArbOnly, SniperDeep} : OtherRouterTick(market_state)

SpecTwo == InitRun /\ [][NextTwo]_vars

\* ------------------------------------------------------------------------
\* A caller that hands one tick to one entry point: an evaluator's on_tick or
\* is_opportunity, or run() of an engine that drives a router
\* ------------------------------------------------------------------------
\* prices around the arbitrage threshold 0.005 * 0.5 = 0.0025
OUPrices ==
    {None, FZero, Dec(0 - 10, 0 - 2), Dec(25, 0 - 4), Dec(49, 0 - 4),
     Dec(50, 0 - 4), Dec(51, 0 - 4), Dec(40, 0 - 2), Dec(55, 0 - 2)}

OUTicks ==
    {[NoTick EXCEPT !.pm_ask = a, !.op_bid = b,
                    !.pm_liquidity = l[1], !.op_liquidity = l[2]] :
        a \in OUPrices, b \in OUPrices,
        l \in {<<None, None>>, <<Dec(80, 0), Dec(60, 0)>>}}

\* asks around target_price - min_gap = 0.48
SniperAsks ==
    {None, FZero, Dec(0 - 10, 0 - 2), Dec(30, 0 - 2), Dec(47, 0 - 2),
     Dec(48, 0 - 2), Dec(481, 0 - 3), Dec(49, 0 - 2), Dec(55, 0 - 2)}

SniperTicks ==
    {[NoTick EXCEPT !.best_ask = a, !.current_ask = c, !.best_bid = b,
                    !.has_position = h, !.position_size = n,
                    !.gas_cost_usd = g] :
        a \in SniperAsks, c \in {None, Dec(45, 0 - 2), Dec(55, 0 - 2)},
        b \in {None, Dec(29, 0 - 2), Dec(60, 0 - 2)}, h \in BOOLEAN,
        n \in {None, Dec(1, 0), Dec(100, 0)}, g \in {None, Dec(2, 0), Dec(5, 0)}}

PriceFields ==
    {"pm_ask", "op_bid", "best_ask", "best_bid", "current_ask", "mid_price",
     "price"}

\* a price field that is absent, null, zero or negative
Kinds == {"absent", "null", "zero", "negative"}

KindValue(kind) ==
    IF kind = "zero" THEN FZero
    ELSE IF kind = "negative" THEN Dec(0 - 10, 0 - 2) ELSE None

DegenerateTick(kinds, mode) ==
    [NoTick EXCEPT !.mode = mode,
                   !.pm_ask = KindValue(kinds["pm_ask"]),
                   !.op_bid = KindValue(kinds["op_bid"]),
                   !.best_ask = KindValue(kinds["best_ask"]),
                   !.best_bid = KindValue(kinds["best_bid"]),
                   !.current_ask = KindValue(kinds["current_ask"]),
                   !.mid_price = KindValue(kinds["mid_price"]),
                   !.price = KindValue(kinds["price"]),
                   !.nulls = {k \in PriceFields : kinds[k] = "null"}]

DegenerateTicks ==
    {DegenerateTick(kinds, mode) :
        kinds \in [PriceFields -> Kinds], mode \in {"arb", "sniper", "None"}}

EvalTicks == OUTicks \cup SniperTicks \cup DegenerateTicks

\* what a call of an evaluator gave: orders, a flag, or an exception
Called(name, raised, orders, opportunity) ==
    [call |-> name, raised |-> raised,
     orders |-> IF raised THEN <<>> ELSE orders,
     opportunity |-> ~raised /\ opportunity]

CallEvaluator(name, raised, orders, opportunity) ==
    /\ pc = "idle"
    /\ returned = <<>>
    /\ returned' = <<Called(name, raised, orders, opportunity)>>
    /\ UNCHANGED <<engineVars, pmVars, routerVars, input, bookVars>>

OUOnTick ==
    CallEvaluator("OUArbStrategy.on_tick", FALSE,
                  OUArbStrategy_on_tick(input[1]), FALSE)

OUIsOpportunity ==
    CallEvaluator("OUArbStrategy.is_opportunity",
                  OUArbStrategy_is_opportunity_raises(input[1]), <<>>,
                  OUArbStrategy_is_opportunity(input[1]))

SniperOnTick ==
    CallEvaluator("SniperStrategy.on_tick", FALSE,
                  SniperStrategy_on_tick(input[1]), FALSE)

SniperIsOpportunity ==
    CallEvaluator("SniperStrategy.is_opportunity",
                  SniperStrategy_is_opportunity_raises(input[1]), <<>>,
                  SniperStrategy_is_opportunity(input[1]))

InitEval ==
    /\ EngineConstructed(Dec(999, 0 - 2))
    /\ PMImported
    /\ USE_LLM_DEFAULT = FALSE
    /\ GEMINI_API_KEY = FALSE
    /\ RouterConstructed
    /\ \E market_state \in EvalTicks : input = <<market_state>>
    /\ returned = <<>>
    /\ NoBook

NextEval ==
    \/ OUOnTick
    \/ OUIsOpportunity
    \/ SniperOnTick
    \/ SniperIsOpportunity
    \/ returned = <<>> /\ RunInputBegin
    \/ RouterTick
    \/ ExecuteOrder /\ UNCHANGED <<pmVars, routerVars, driverVars, bookVars>>
    \/ SampleEquity /\ UNCHANGED <<pmVars, routerVars, driverVars, bookVars>>
    \/ RunInputEnd

SpecEval == InitEval /\ [][NextEval]_vars

\* ------------------------------------------------------------------------
\* One OrderBook within one simulated event of MaxEventTicks ticks: fills and
\* the periodic replenishment.  Of _execute_opportunity the steps that touch
\* the book are modelled; its early returns only take calls away.
\* ------------------------------------------------------------------------
Jitter == {Dec(9, 0 - 1), ONE, Dec(11, 0 - 1)}

FillQuantities == {Dec(20, 0), Dec(90, 0), Dec(100, 0), Dec(500, 0)}

\* the levels _generate_books builds on one side: level i (from 0) at
\* price * (1 + step * (i + 1)) with quantity liq * 0.6 ** i (Decay(i));
\* step is 0.002 for the asks of Polymarket, -0.003 for the bids of Opinion
GeneratedLevels(price, step, liq, n) ==
    LET RECURSIVE Decay(_)
        Decay(i) == IF i = 0 THEN ONE ELSE FMul(Decay(i - 1), Dec(6, 0 - 1))
    IN  [k \in 1..n |->
            [price |-> FMul(price, FAdd(ONE, FMul(step, Dec(k, 0)))),
             qty   |-> FMul(liq, Decay(k - 1))]]

\* _generate_books: the Polymarket book has ask levels only, the Opinion book
\* bid levels only; liquidity_crisis is the constructor's argument
InitBook ==
    /\ EngineConstructed(FZero)
    /\ PMImported
    /\ USE_LLM_DEFAULT = FALSE
    /\ GEMINI_API_KEY = FALSE
    /\ RouterConstructed
    /\ input = <<>>
    /\ returned = <<>>
    /\ \E n \in 1..MaxLevels, platform \in {"POLYMARKET", "OPINION"} :
          /\ ask_levels = IF platform = "POLYMARKET"
                          THEN GeneratedLevels(HALF, Dec(2, 0 - 3), Dec(100, 0), n)
                          ELSE <<>>
          /\ bid_levels = IF platform = "OPINION"
                          THEN GeneratedLevels(HALF, FNeg(Dec(3, 0 - 3)), Dec(100, 0), n)
                          ELSE <<>>
    /\ _initial_ask_levels = ask_levels
    /\ _initial_bid_levels = bid_levels
    /\ liquidity_crisis \in BOOLEAN
    /\ last_fill = NoFill
    /\ fills = 0
    /\ tick_in_event = 0

\* a fill of _execute_opportunity at the current tick
Consume ==
    /\ fills < MaxFills
    /\ \E side \in {"BUY", "SELL"}, quantity \in FillQuantities :
          consume_liquidity_with_exponential_slippage(side, quantity)
    /\ UNCHANGED <<engineVars, pmVars, routerVars, driverVars, tick_in_event>>

\* for tick in range(ticks_per_event)
LoopStep ==
    /\ tick_in_event + 1 < MaxEventTicks
    /\ tick_in_event' = tick_in_event + 1

\* the next tick of the event's loop reaches the book update of
\* _execute_opportunity: the book is replenished on every third tick
NextTick ==
    /\ LoopStep
    /\ IF tick_in_event' % 3 = 0
       THEN \E ask_jitter \in [1..Len(ask_levels) -> Jitter],
               bid_jitter \in [1..Len(bid_levels) -> Jitter] :
               replenish_liquidity(Dec(25, 0 - 2), ask_jitter, bid_jitter)
       ELSE UNCHANGED <<ask_levels, bid_levels, liquidity_crisis,
                        _initial_ask_levels, _initial_bid_levels, last_fill, fills>>
    /\ UNCHANGED <<engineVars, pmVars, routerVars, driverVars>>

NextBook ==
    \/ Consume
    \/ NextTick

SpecBook == InitBook /\ [][NextBook]_vars

\* the loop over the ticks of the event runs to its end: the steps of NextBook
\* that advance tick_in_event are the NextTick steps, and one is possible as
\* long as the event has ticks left
SpecBookFair == SpecBook /\ WF_tick_in_event(LoopStep)

\* ------------------------------------------------------------------------
\* Claims about the execution engine (SpecEngine)
\* ------------------------------------------------------------------------
\* C1: cash is >= 0 after every executed instruction and at every equity
\* sample, whatever the instructions; a BUY whose notional exceeds the
\* available cash never drives cash below 0.
C1_CashNeverNegative ==
    /\ cash.m >= 0
    /\ \A i \in 1..Len(trades) : trades[i].cash_after.m >= 0
    /\ \A i \in 1..Len(snaps) : snaps[i].cash.m >= 0

\* the last _execute_order call was a SELL that produced a trade
SoldLast == lastExec.ok /\ Upper(lastExec.instruction.side) = "SELL"

\* C2: position is >= 0 after every executed instruction; a SELL never sells
\* more units than are held when it executes, and a SELL with nothing held
\* produces no trade.
C2_PositionNeverNegative ==
    /\ position.m >= 0
    /\ \A i \in 1..Len(trades) : trades[i].position_after.m >= 0
    /\ SoldLast => FLe(Last(trades).size, lastExec.position_before)
    /\ (/\ lastExec # NoExec
        /\ Upper(lastExec.instruction.side) = "SELL"
        /\ ~Positive(lastExec.position_before)) => ~lastExec.ok

\* a SELL larger than the holding has just been executed, clamped
C2_Witness ==
    /\ SoldLast
    /\ FGt(lastExec.instruction.size, lastExec.position_before)
    /\ position = FZero

\* the trades of ticks 0 .. t (the engine numbers ticks from 0)
TradesUpTo(t) == SelectSeq(trades, LAMBDA tr : tr.tick <= t)

\* C3: run appends one equity sample per tick, after all of the tick's
\* instructions, equal to cash_i + position_i * mark_price_i for the cash and
\* position after tick i; len(equity_curve) = len(market_data) and, for a
\* non-empty run, final_equity = equity_curve[-1].
C3_EquityIdentity ==
    /\ Len(equity_curve) = Len(snaps)
    /\ pc \in {"tick", "done"} => Len(equity_curve) = Len(market_data)
    /\ pc = "exec" => Len(equity_curve) = Len(market_data) - 1
    /\ \A i \in 1..Len(equity_curve) :
          /\ equity_curve[i] =
                FAdd(snaps[i].cash,
                     FMul(snaps[i].position, _get_mark_price(market_data[i])))
          /\ LET done == TradesUpTo(i - 1)
             IN  /\ snaps[i].cash = IF done = <<>> THEN initial_cash
                                    ELSE Last(done).cash_after
                 /\ snaps[i].position = IF done = <<>> THEN FZero
                                        ELSE Last(done).position_after
    /\ (pc = "done" /\ market_data # <<>>) =>
          /\ result.final_equity = Last(equity_curve)
          /\ Len(result.equity_curve) = Len(market_data)

\* a finished run of several ticks that holds a position at its last sample
C3_Witness ==
    /\ pc = "done"
    /\ Len(equity_curve) >= 2
    /\ Positive(Last(snaps).position)
    /\ Last(equity_curve) # Last(snaps).cash

\* ------------------------------------------------------------------------
\* Claims about repeated runs (SpecRun)
\* ------------------------------------------------------------------------
\* two trades agree on everything but the free-form metadata
SameFill(x, y) == [x EXCEPT !.meta = <<>>] = [y EXCEPT !.meta = <<>>]

\* two results report the same trades, equity curve and final equity
SameOutcome(a, b) ==
    /\ Len(a.trades) = Len(b.trades)
    /\ \A i \in 1..Len(a.trades) : SameFill(a.trades[i], b.trades[i])
    /\ a.equity_curve = b.equity_curve
    /\ a.final_equity = b.final_equity

\* C4: running run several times in succession on the same engine driving a
\* StrategyRouter, with the same tick sequence, returns the same trades, the
\* same equity curve and the same final equity every time.
C4_RepeatedRunsAgree ==
    \A i, j \in 1..Len(returned) : SameOutcome(returned[i], returned[j])

\* ------------------------------------------------------------------------
\* Claims about the regime window (SpecPM)
\* ------------------------------------------------------------------------
\* a freshly constructed AIPortfolioManager that has decided on the ticks with
\* the given features, in order: its window and its last result
RECURSIVE Fresh(_)
Fresh(fs) ==
    IF fs = <<>> THEN [history |-> <<>>, result |-> NoDecision]
    ELSE decide(Fresh(SubSeq(fs, 1, Len(fs) - 1)).history, Last(fs), "")

\* C5: after reset_state, whatever was decided before it, every decision and
\* the window are those of a freshly constructed decision engine that decides
\* on the ticks seen since the reset; the first decision after the reset is
\* the fresh engine's decision on that tick alone.
C5_ResetIsFresh ==
    (wasReset /\ calls # <<>>) =>
        /\ lastBase = Fresh(calls).result
        /\ lastResult = Fresh(calls).result
        /\ _history = Fresh(calls).history

\* the first decision after a reset that cleared a non-empty window
C5_Witness ==
    /\ wasReset
    /\ Len(calls) = 1
    /\ _history = <<_extract_features(SniperOnly)>>
    /\ lastResult.chosen_strategy = "sniper"

\* the last n elements of a sequence
LastOf(s, n) == SubSeq(s, Len(s) - n + 1, Len(s))

\* C6: the regime window holds at most horizon (5) records: the feature
\* records of the most recent min(n, 5) rule-based decide calls since the last
\* reset, in arrival order; on overflow the oldest record is evicted.
C6_WindowIsLastFive ==
    /\ Len(_history) <= 5
    /\ _history = LastOf(calls, MinInt(Len(calls), 5))

\* a sixth record has arrived and pushed out the oldest, the only arb record
C6_Witness ==
    /\ Len(calls) = 6
    /\ calls[1].is_arb_signal
    /\ CountArb(_history) = 0
    /\ Len(_history) = 5

ArbSignalOnly(f) == f.is_arb_signal /\ ~f.is_sniper_signal

NoHintNoSignal(f) == f.mode = "None" /\ ~f.is_arb_signal /\ ~f.is_sniper_signal

\* since the window was empty: k arb-only ticks, 1 <= k <= 5, then a tick
\* without mode hint and without signal
ArbRunThenQuiet ==
    /\ Len(calls) \in 2..6
    /\ \A i \in 1..(Len(calls) - 1) : ArbSignalOnly(calls[i])
    /\ NoHintNoSignal(Last(calls))

\* C7: starting from an empty window, after k consecutive arb-only ticks
\* (1 <= k <= 5) a following tick with no mode hint and no signal is decided
\* ou_arb, with a reason that cites the arb regime tally.
C7_ArbRegimePersists ==
    ArbRunThenQuiet =>
        /\ lastResult.chosen_strategy = "ou_arb"
        /\ lastResult.reason.text = "Arb regime detected"
        /\ lastResult.reason.n = MinInt(Len(calls) - 1, 4)
        /\ lastResult.reason.d = MinInt(Len(calls), 5)

\* five arb-only ticks, then a quiet tick that has an ask
C7_Witness ==
    /\ ArbRunThenQuiet
    /\ Len(calls) = 6
    /\ Positive(Last(calls).best_ask)
    /\ lastResult.chosen_strategy = "ou_arb"

\* C8: on an empty window, a tick with only mode == "sniper" is decided
\* sniper, aggressive, 0.80, "Trend sniper signal"; a tick with only
\* mode == "arb" is decided ou_arb, defensive, 0.95, "Arbitrage opportunity
\* detected".
C8_EmptyWindowSingleTick ==
    Len(calls) = 1 =>
        /\ calls[1] = _extract_features(SniperOnly) =>
              lastResult = Decision("sniper", "aggressive",
                                    Reason("Trend sniper signal", 0, 0, FZero),
                                    CONF_80)
        /\ calls[1] = _extract_features(ArbOnly) =>
              lastResult = Decision("ou_arb", "defensive",
                                    Reason("Arbitrage opportunity detected", 0, 0,
                                           FZero),
                                    CONF_95)

\* ------------------------------------------------------------------------
\* Claims about every path of decide_strategy (SpecDecide)
\* ------------------------------------------------------------------------
\* C9: every result of decide_strategy, on the rule-based, the LLM and the
\* fallback path, with or without a historical pattern, has chosen_strategy
\* in {ou_arb, sniper} and risk_mode in {defensive, normal, aggressive}; a
\* reply of the LLM with a value outside these sets, or without one, comes
\* back as ou_arb respectively normal, a valid value comes back unchanged.
C9_ValidEnums ==
    lastPath # "none" =>
        /\ lastResult.chosen_strategy \in {"ou_arb", "sniper"}
        /\ lastResult.risk_mode \in {"defensive", "normal", "aggressive"}
        /\ lastPath = "llm" =>
              /\ lastResult.chosen_strategy =
                    IF lastLLM.data.chosen_strategy \in {"ou_arb", "sniper"}
                    THEN lastLLM.data.chosen_strategy ELSE "ou_arb"
              /\ lastResult.risk_mode =
                    IF lastLLM.data.risk_mode \in {"defensive", "normal", "aggressive"}
                    THEN lastLLM.data.risk_mode ELSE "normal"

\* the LLM replied with a strategy and a risk mode outside the enums
C9_Witness ==
    /\ lastPath = "llm"
    /\ lastLLM.data.chosen_strategy = "hold"
    /\ lastLLM.data.risk_mode = "reckless"
    /\ lastResult.chosen_strategy = "ou_arb"
    /\ lastResult.risk_mode = "normal"

\* C10: every result of decide_strategy has 0 <= confidence <= 1, on every
\* path, the LLM path with a reply that carries its own confidence included.
C10_ConfidenceInRange ==
    lastPath # "none" =>
        /\ FGe(lastResult.confidence, FZero)
        /\ FLe(lastResult.confidence, ONE)

\* ------------------------------------------------------------------------
\* Claims about the router inside a run (SpecRun)
\* ------------------------------------------------------------------------
\* the trades the engine recorded for the tick it is executing
TradesNow == {i \in 1..Len(trades) : trades[i].tick = Len(market_data) - 1}

\* the metadata of the orders the router returned for the tick: those still
\* to execute and those already recorded as trades
MetaNow ==
    {pending[i].meta : i \in 1..Len(pending)} \cup {trades[i].meta : i \in TradesNow}

\* the router's check of the evaluator the decision names
Preferred(decision, market_state) ==
    IF decision.chosen_strategy = "ou_arb" THEN _check_ou_opportunity(market_state)
    ELSE IF decision.chosen_strategy = "sniper"
    THEN _check_sniper_opportunity(market_state)
    ELSE FALSE

\* the mark each evaluator leaves in the metadata of its own orders
ProducedBy(meta, name) ==
    \/ name = "ou_arb" /\ "platform" \in DOMAIN meta /\ "strategy" \notin DOMAIN meta
    \/ name = "sniper" /\ "strategy" \in DOMAIN meta /\ "platform" \notin DOMAIN meta

\* C11: if the evaluator the decision prefers has no live opportunity on the
\* tick, on_tick returns no orders and the other evaluator is not used, even
\* when it has an opportunity on that tick; every order the router returns
\* was produced by the evaluator that the tick's decision names.
C11_NoFallback ==
    pc = "exec" =>
        /\ ~Preferred(last_decision, Last(market_data)) =>
              /\ last_routing_mode = "none"
              /\ pending = <<>>
              /\ TradesNow = {}
        /\ \A meta \in MetaNow : ProducedBy(meta, last_decision.chosen_strategy)

\* the decision names ou_arb, which has nothing, on a tick where the sniper
\* has an opportunity
C11_Witness ==
    /\ pc = "exec"
    /\ last_decision.chosen_strategy = "ou_arb"
    /\ ~_check_ou_opportunity(Last(market_data))
    /\ _check_sniper_opportunity(Last(market_data))
    /\ pending = <<>>

\* C12: every order on_tick returns, and so every trade the engine records
\* when it drives a router, carries routed_by, routing_mode, ai_reason,
\* ai_risk_mode and ai_confidence in its metadata; routing_mode is the
\* chosen_strategy of the decision made on that tick and the ai_ values are
\* that decision's reason, risk_mode and confidence; get_last_decision
\* returns that decision.
C12_DecisionInMetadata ==
    /\ \A i \in 1..Len(trades) :
          {"routed_by", "routing_mode", "ai_reason", "ai_risk_mode",
           "ai_confidence"} \subseteq DOMAIN trades[i].meta
    /\ pc = "exec" =>
          /\ get_last_decision = lastResult
          /\ \A meta \in MetaNow :
                /\ {"routed_by", "routing_mode", "ai_reason", "ai_risk_mode",
                    "ai_confidence"} \subseteq DOMAIN meta
                /\ meta.routed_by = "router"
                /\ meta.routing_mode = lastResult.chosen_strategy
                /\ meta.ai_reason = lastResult.reason
                /\ meta.ai_risk_mode = lastResult.risk_mode
                /\ meta.ai_confidence = lastResult.confidence

\* a run that recorded trades routed to both evaluators
C12_Witness ==
    /\ pc = "exec"
    /\ pending = <<>>
    /\ TradesNow # {}
    /\ \E i, j \in 1..Len(trades) :
          /\ trades[i].meta.routing_mode = "ou_arb"
          /\ trades[j].meta.routing_mode = "sniper"

\* a step in which on_tick ran
Routed == pc = "tick" /\ pc' = "exec"

\* C13: each on_tick call increments exactly one of the three routing
\* counters, the one last_routing_mode names after the call, and total_ticks
\* grows by one and stays the sum of the three counts; no other step changes
\* the counters except reset_stats, which zeroes them.
C13_OneCounterPerTick ==
    [][ LET before == get_routing_stats(routing_stats)
            after  == get_routing_stats(routing_stats')
        IN  /\ after.total_ticks =
                  after.ou_arb_count + after.sniper_count + after.no_action_count
            /\ Routed =>
                  /\ last_routing_mode' \in {"ou_arb", "sniper", "none"}
                  /\ routing_stats' =
                        [routing_stats EXCEPT ![last_routing_mode'] = @ + 1]
                  /\ after.total_ticks = before.total_ticks + 1
            /\ ~Routed =>
                  \/ routing_stats' = routing_stats
                  \/ after.total_ticks = 0 /\ last_routing_mode' = "none" ]_vars

\* all three counters have counted a tick, the last one a tick without action
C13_Witness ==
    /\ routing_stats.ou_arb >= 1
    /\ routing_stats.sniper >= 1
    /\ routing_stats.none >= 1
    /\ last_routing_mode = "none"
    /\ pc = "exec"

\* C16: for the empty tick sequence and for any tick sequence on which no
\* instruction executes, run returns a complete result without raising, with
\* total_trades = 0, final_position = 0, final_cash = final_equity =
\* initial_cash, total_return = 0, max_drawdown = 0 and an equity curve whose
\* every sample is initial_cash.
C16_NoTradeRunIsFlat ==
    /\ pc = "raised" => trades # <<>>
    /\ (pc = "done" /\ result.total_trades = 0) =>
          /\ result.final_position = FZero
          /\ result.final_cash = initial_cash
          /\ result.final_equity = initial_cash
          /\ result.total_return = FZero
          /\ result.max_drawdown = FZero
          /\ Len(result.equity_curve) = Len(market_data)
          /\ \A i \in 1..Len(result.equity_curve) :
                result.equity_curve[i] = initial_cash

\* ------------------------------------------------------------------------
\* Claims about the evaluators (SpecEval)
\* ------------------------------------------------------------------------
\* the caller called the named entry point of an evaluator
CalledAs(name) ==
    /\ returned # <<>>
    /\ "call" \in DOMAIN returned[1]
    /\ returned[1].call = name

\* pm_ask or op_bid is missing or <= 0
NoQuote(market_state) ==
    \/ market_state.pm_ask = None
    \/ market_state.op_bid = None
    \/ ~Positive(market_state.pm_ask)
    \/ ~Positive(market_state.op_bid)

Threshold == FMul(min_profit_rate, min_spread_multiplier)

\* C14: OUArbStrategy.on_tick returns an empty list when pm_ask or op_bid is
\* missing or <= 0 or when op_bid - pm_ask < min_profit_rate *
\* min_spread_multiplier, and otherwise exactly two instructions, BUY at
\* pm_ask then SELL at op_bid, of equal size; for a fixed pm_ask, once the
\* output is non-empty it stays non-empty for every larger op_bid; a spread
\* equal to the threshold produces the two orders.
C14_ArbOrders ==
    CalledAs("OUArbStrategy.on_tick") =>
        LET market_state == input[1]
            orders == returned[1].orders
            spread == FSub(market_state.op_bid, market_state.pm_ask)
        IN  /\ ~returned[1].raised
            /\ IF NoQuote(market_state) \/ FLt(spread, Threshold)
               THEN orders = <<>>
               ELSE /\ Len(orders) = 2
                    /\ orders[1].side = "BUY"
                    /\ orders[1].price = market_state.pm_ask
                    /\ orders[2].side = "SELL"
                    /\ orders[2].price = market_state.op_bid
                    /\ orders[1].size = orders[2].size
            /\ orders # <<>> =>
                  \A b \in OUPrices \ {None} :
                      FGe(b, market_state.op_bid) =>
                          OUArbStrategy_on_tick([market_state EXCEPT !.op_bid = b])
                              # <<>>
            /\ (~NoQuote(market_state) /\ FLe(spread, Threshold)
                    /\ FGe(spread, Threshold)) => Len(orders) = 2

\* a tick whose spread is exactly the threshold, answered with two orders,
\* and a smaller op_bid for the same pm_ask that gives none
C14_Witness ==
    /\ CalledAs("OUArbStrategy.on_tick")
    /\ ~NoQuote(input[1])
    /\ FLe(FSub(input[1].op_bid, input[1].pm_ask), Threshold)
    /\ FGe(FSub(input[1].op_bid, input[1].pm_ask), Threshold)
    /\ Len(returned[1].orders) = 2
    /\ \E b \in OUPrices \ {None} :
          /\ Positive(b)
          /\ FLt(b, input[1].op_bid)
          /\ OUArbStrategy_on_tick([input[1] EXCEPT !.op_bid = b]) = <<>>

\* the orders the entry rule of the sniper asks for at the given ask
EntryOrders(market_state, ask, orders) ==
    LET notional == IF market_state.position_size = None THEN position_size
                    ELSE market_state.position_size
        gas      == GetOr0(market_state.gas_cost_usd)
        shares   == FDiv(notional, ask)
        profit   == FSub(FMul(shares, target_price), FAdd(notional, gas))
    IN  IF /\ ask # None
           /\ Positive(ask)
           /\ FGe(FSub(target_price, ask), min_gap)
           /\ Positive(profit)
        THEN /\ Len(orders) = 1
             /\ orders[1].side = "BUY"
             /\ orders[1].price = ask
             /\ orders[1].size = shares
        ELSE orders = <<>>

\* C15 as stated: for a tick without has_position, SniperStrategy.on_tick
\* emits exactly one BUY at best_ask with size notional / best_ask when
\* best_ask > 0, target_price - best_ask >= min_gap and (notional / best_ask)
\* * target_price - (notional + gas_cost_usd) > 0, and nothing otherwise,
\* best_ask being the tick's best_ask field.
C15_EntryAtBestAskField ==
    (CalledAs("SniperStrategy.on_tick") /\ ~input[1].has_position) =>
        EntryOrders(input[1], input[1].best_ask, returned[1].orders)

\* C15: for a tick without has_position, SniperStrategy.on_tick emits exactly
\* one BUY at the ask with size notional / ask when ask > 0, target_price -
\* ask >= min_gap (a gap equal to min_gap triggers) and (notional / ask) *
\* target_price - (notional + gas_cost_usd) > 0, and nothing otherwise; the
\* ask is the tick's best_ask or, when that is absent, null or zero, its
\* current_ask; notional is the tick's position_size if present and the
\* strategy's position_size otherwise.
C15_EntryAtResolvedAsk ==
    (CalledAs("SniperStrategy.on_tick") /\ ~input[1].has_position) =>
        /\ ~returned[1].raised
        /\ EntryOrders(input[1],
                       PyOr(input[1].best_ask, input[1].current_ask),
                       returned[1].orders)

\* a tick whose best_ask is exactly target_price - min_gap, with a size
\* override, answered with one BUY
C15_Witness ==
    /\ CalledAs("SniperStrategy.on_tick")
    /\ ~input[1].has_position
    /\ input[1].best_ask = Dec(48, 0 - 2)
    /\ input[1].position_size # None
    /\ Len(returned[1].orders) = 1
    /\ returned[1].orders[1].price = Dec(48, 0 - 2)

\* every price field of the tick is absent, null, zero or negative
Degenerate(market_state) ==
    /\ market_state.mode \in {"arb", "sniper", "None"}
    /\ \A k \in PriceFields : market_state[k] = None \/ ~Positive(market_state[k])

\* C20: for a tick in which every price field (pm_ask, op_bid, best_ask,
\* best_bid, current_ask, mid_price, price) is absent, null, zero or negative
\* and mode is "arb", "sniper" or null, both evaluators' on_tick and
\* is_opportunity, the router's on_tick and run complete without raising; the
\* router returns no orders and the engine records no trade.
C20_DegenerateNeverRaises ==
    Degenerate(input[1]) =>
        /\ pc # "raised"
        /\ pending = <<>>
        /\ trades = <<>>
        /\ (returned # <<>> /\ "call" \in DOMAIN returned[1]) =>
              /\ ~returned[1].raised
              /\ returned[1].orders = <<>>
              /\ ~returned[1].opportunity

\* ------------------------------------------------------------------------
\* Claims about single instructions (SpecEngine)
\* ------------------------------------------------------------------------
\* a step in which _execute_order ran on the head of the pending instructions
Executed == pc = "exec" /\ pending # <<>> /\ pending' = Tail(pending)

\* the instruction is one the engine rejects: size <= 0, side neither BUY nor
\* SELL, no positive execution price, or a size that clamps to zero
IsRejected(instruction, market_state, c, p) ==
    LET side == Upper(instruction.side)
        exec_price == IF instruction.price = None \/ ~Positive(instruction.price)
                      THEN _get_execution_price(market_state, side)
                      ELSE instruction.price
    IN  \/ ~Positive(instruction.size)
        \/ side \notin {"BUY", "SELL"}
        \/ exec_price = None
        \/ ~Positive(exec_price)
        \/ /\ side = "BUY"
           /\ FGt(FMul(instruction.size, exec_price), c)
           /\ ~Positive(FDiv(c, exec_price))
        \/ /\ side = "SELL"
           /\ FGt(instruction.size, p)
           /\ ~Positive(p)

\* C17 as stated: a rejected instruction leaves cash and position unchanged
\* and adds no Trade; every other instruction adds exactly one Trade, and the
\* instructions that add a Trade are those that change cash and position.
C17_TradesAreStateChanges ==
    [][ Executed =>
          IF IsRejected(Head(pending), Last(market_data), cash, position)
          THEN cash' = cash /\ position' = position /\ trades' = trades
          ELSE /\ Len(trades') = Len(trades) + 1
               /\ cash' # cash
               /\ position' # position ]_vars

\* C17: an instruction that is rejected (size <= 0, side neither BUY nor
\* SELL, no positive execution price resolvable, or size clamped to zero)
\* leaves cash and position unchanged and adds no Trade; every other
\* instruction adds exactly one Trade, which records the cash and position
\* the instruction left; no other step of a run adds a Trade, so total_trades
\* is the number of instructions that were not rejected.
C17_OneTradePerAccepted ==
    [][ /\ Executed =>
              IF IsRejected(Head(pending), Last(market_data), cash, position)
              THEN cash' = cash /\ position' = position /\ trades' = trades
              ELSE /\ Len(trades') = Len(trades) + 1
                   /\ SubSeq(trades', 1, Len(trades)) = trades
                   /\ Last(trades').cash_after = cash'
                   /\ Last(trades').position_after = position'
        /\ ~Executed => trades' = trades \/ trades' = <<>>
        /\ pc' = "done" => result'.total_trades = Len(trades') ]_vars

\* a rejected instruction has just left the engine as it was, after an
\* accepted one had recorded a trade
C17_Witness ==
    /\ lastExec # NoExec
    /\ ~lastExec.ok
    /\ Len(trades) = 1
    /\ cash = lastExec.cash_before
    /\ position = lastExec.position_before
    /\ Positive(position)

\* ------------------------------------------------------------------------
\* Claims about the fallback of the LLM path (SpecDecide)
\* ------------------------------------------------------------------------
\* C18: when the LLM path is requested and fails, for missing credentials, a
\* malformed response or a transport error, decide_strategy returns the
\* rule-based decision with a fallback note appended to its reason, so that
\* the reason tells it from a decision that never attempted the LLM.
C18_FailedLLMIsNoted ==
    /\ lastPath \in {"fallback", "nokey"} => lastResult.reason.note # ""
    /\ lastPath = "rule" => lastResult.reason.note = ""

\* a step of decide_strategy on which the LLM was requested and failed
FellBack == Len(calls') = Len(calls) + 1 /\ lastPath' \in {"fallback", "nokey"}

\* C19: when the LLM path is requested and fails, decide_strategy returns
\* normally, and the chosen_strategy, risk_mode and confidence it returns are
\* those of the rule-based path for the same tick and the same window; the
\* window is read and updated as in a plain rule-based call.
C19_FallbackIsRuleBased ==
    [][ FellBack =>
          LET plain == decide(_history, Last(calls'), "")
          IN  /\ _history' = plain.history
              /\ lastBase'.chosen_strategy = plain.result.chosen_strategy
              /\ lastBase'.risk_mode = plain.result.risk_mode
              /\ lastBase'.confidence = plain.result.confidence
              /\ [lastBase'.reason EXCEPT !.note = ""] = plain.result.reason
              /\ \E stats \in DecideStats :
                    /\ _extract_features(stats) = Last(calls')
                    /\ [lastResult' EXCEPT !.reason = plain.result.reason] =
                          [AdjustByPattern(plain.result, stats)
                              EXCEPT !.reason = plain.result.reason] ]_vars

\* a failed LLM call answered from a window of two ticks, with its note
C19_Witness ==
    /\ lastPath = "fallback"
    /\ Len(_history) = 2
    /\ lastResult.reason.note # ""
    /\ lastResult.reason.d = 2
\* ------------------------------------------------------------------------
\* Claims about regime changes (SpecPM)
\* ------------------------------------------------------------------------
\* a record with a sniper signal and no arb signal, and the converse
SniperTick(f) == f.is_sniper_signal /\ ~f.is_arb_signal
ArbTick(f) == f.is_arb_signal /\ ~f.is_sniper_signal

\* the k newest calls since the last reset all satisfy P
NewestCalls(k, P(_)) ==
    /\ Len(calls) >= k
    /\ \A i \in (Len(calls) - k + 1)..Len(calls) : P(calls[i])

\* C21: from any window contents, once 3 consecutive ticks have each carried
\* a sniper signal and no arb signal, the decision AIPortfolioManager.decide
\* makes on the 3rd and on every further such tick is sniper with risk_mode
\* aggressive, and symmetrically ou_arb with defensive for arb-only ticks.
C21_RegimeFollowsInput ==
    /\ NewestCalls(3, SniperTick) =>
          lastBase.chosen_strategy = "sniper" /\ lastBase.risk_mode = "aggressive"
    /\ NewestCalls(3, ArbTick) =>
          lastBase.chosen_strategy = "ou_arb" /\ lastBase.risk_mode = "defensive"

\* three arb-only ticks followed by three sniper-only ticks: the third of
\* them is decided sniper by the tally 3 to 2
C21_Witness ==
    /\ Len(calls) = 6
    /\ \A i \in 1..3 : ArbTick(calls[i])
    /\ NewestCalls(3, SniperTick)
    /\ lastBase.chosen_strategy = "sniper"
    /\ lastBase.reason.n = 3
    /\ lastBase.reason.d = 5
\* ------------------------------------------------------------------------
\* Claims about two backtests in one process (SpecTwo)
\* ------------------------------------------------------------------------
\* the regime window after the first k ticks of data, from a reset state
RECURSIVE WindowAfter(_, _)
WindowAfter(data, k) ==
    IF k = 0 THEN <<>>
    ELSE _update_history(WindowAfter(data, k - 1), _extract_features(data[k]))

\* the decision for tick k of data when the backtest runs alone
AloneDecision(data, k) ==
    AdjustByPattern(decide(WindowAfter(data, k - 1), _extract_features(data[k]),
                           "").result,
                    data[k])

\* C22: whatever ticks a second backtest with its own router and engine has
\* processed in between, the decision the first backtest's router holds for
\* its newest tick is the one the backtest gets when it runs alone from a
\* reset state.
C22_BacktestsAreIndependent ==
    (pc \in {"exec", "done", "raised"} /\ market_data # <<>>) =>
        last_decision = AloneDecision(market_data, Len(market_data))
\* ------------------------------------------------------------------------
\* Claims about fills and the drawdown (SpecEngine)
\* ------------------------------------------------------------------------
\* the price the instruction executes at: its limit price, else the tick's
ExecPriceOf(instruction, market_state) ==
    IF instruction.price = None \/ ~Positive(instruction.price)
    THEN _get_execution_price(market_state, Upper(instruction.side))
    ELSE instruction.price

\* C23: every executed BUY of clamped size s at price p changes cash and
\* position to cash - s*p and position + s, every executed SELL to
\* cash + s*p and position - s; the Trade recorded has that s and p,
\* cost = s*p, which is not negative for either side, the instruction's
\* metadata, and position_after and cash_after equal to the engine state
\* right after the instruction.
C23_FillArithmetic ==
    [][ (Executed /\ Len(trades') = Len(trades) + 1) =>
          LET t == Last(trades')
              instruction == Head(pending)
              s == t.size
              p == t.price
          IN  /\ trades' = Append(trades, t)
              /\ t.side = Upper(instruction.side)
              /\ t.side \in {"BUY", "SELL"}
              /\ p = ExecPriceOf(instruction, Last(market_data))
              /\ t.side = "BUY" =>
                    /\ s = IF FGt(FMul(instruction.size, p), cash)
                           THEN FDiv(cash, p) ELSE instruction.size
                    /\ cash' = FSub(cash, FMul(s, p))
                    /\ position' = FAdd(position, s)
              /\ t.side = "SELL" =>
                    /\ s = IF FGt(instruction.size, position)
                           THEN position ELSE instruction.size
                    /\ cash' = FAdd(cash, FMul(s, p))
                    /\ position' = FSub(position, s)
              /\ t.cost = FMul(s, p)
              /\ FGe(t.cost, FZero)
              /\ t.meta = instruction.meta
              /\ t.position_after = position'
              /\ t.cash_after = cash' ]_vars

\* a BUY was clamped and filled, and a SELL was filled after it
C23_Witness ==
    /\ Len(trades) = 2
    /\ trades[1].side = "BUY"
    /\ trades[1].meta.reason = "all_in"
    /\ FLt(trades[1].size, BuyAll.size)
    /\ trades[2].side = "SELL"
    /\ lastExec # NoExec
    /\ lastExec.ok
    /\ cash = trades[2].cash_after
    /\ position = trades[2].position_after
\* the last instruction was filled on the given side after its size was
\* clamped to what the account held
ClampedFill(side) ==
    /\ lastExec # NoExec
    /\ lastExec.ok
    /\ Upper(lastExec.instruction.side) = side
    /\ IF side = "BUY"
       THEN FGt(FMul(lastExec.instruction.size, Last(trades).price),
                lastExec.cash_before)
       ELSE FGt(lastExec.instruction.size, lastExec.position_before)

\* C24: a BUY with size * price > cash is executed with size = cash / price
\* and leaves cash exactly 0 when cash > 0, and changes nothing when
\* cash <= 0; a SELL with size > position is executed with size = position
\* and leaves position exactly 0 when position > 0, and changes nothing when
\* position <= 0.
C24_ClampEmptiesAccount ==
    /\ ClampedFill("BUY") =>
          /\ Positive(lastExec.cash_before)
          /\ Last(trades).size = FDiv(lastExec.cash_before, Last(trades).price)
          /\ cash = FZero
    /\ ClampedFill("SELL") =>
          /\ Positive(lastExec.position_before)
          /\ Last(trades).size = lastExec.position_before
          /\ position = FZero
\* the declines (curve[i] - curve[j]) / curve[i] for i <= j, and 0
Declines(curve) ==
    {FZero} \cup
    { FDiv(FSub(curve[i], curve[j]), curve[i]) :
        <<i, j>> \in { ij \in (DOMAIN curve) \X (DOMAIN curve) :
                         ij[1] <= ij[2] /\ Positive(curve[ij[1]]) } }

LargestDecline(curve) ==
    CHOOSE x \in Declines(curve) : \A y \in Declines(curve) : FLe(y, x)

\* C25: BacktestResult.max_drawdown is the largest peak-to-trough decline
\* over the equity curve, the maximum over i <= j of
\* (equity_curve[i] - equity_curve[j]) / equity_curve[i], and is 0 whenever
\* the equity curve is non-decreasing.
C25_DrawdownOfCurve ==
    (pc = "done" /\ result.equity_curve # <<>>) =>
        /\ result.max_drawdown = LargestDecline(result.equity_curve)
        /\ (\A j \in 2..Len(result.equity_curve) :
               FLe(result.equity_curve[j - 1], result.equity_curve[j]))
           => result.max_drawdown = FZero
\* ------------------------------------------------------------------------
\* Claims about the rules of the rule-based path (SpecRule)
\* ------------------------------------------------------------------------
\* the tick that was decided, and the tallies of the window it was pushed to
Tick == input[1]
ArbTally == Cardinality({i \in DOMAIN _history : _history[i].is_arb_signal})
SniperTally == Cardinality({i \in DOMAIN _history : _history[i].is_sniper_signal})
Share(n) == FDiv(Dec(n, 0), Dec(Len(_history), 0))

\* C26: in the rule-based path, with the tallies taken over the window after
\* the tick has been pushed, more arb than sniper signals yield ou_arb and
\* defensive with confidence min(0.60 + (arb_count / window_len) * 0.35, 0.95),
\* more sniper than arb signals yield sniper and aggressive with confidence
\* min(0.60 + (sniper_count / window_len) * 0.30, 0.90), whatever the tick's
\* mode hint or prices are; without historical_pattern that is the decision
\* returned.
C26_RegimeRules ==
    input # <<>> =>
        /\ ArbTally > SniperTally =>
              /\ lastBase.chosen_strategy = "ou_arb"
              /\ lastBase.risk_mode = "defensive"
              /\ lastBase.confidence =
                    FMin(FAdd(CONF_60, FMul(Share(ArbTally), SLOPE_35)), CONF_95)
        /\ SniperTally > ArbTally =>
              /\ lastBase.chosen_strategy = "sniper"
              /\ lastBase.risk_mode = "aggressive"
              /\ lastBase.confidence =
                    FMin(FAdd(CONF_60, FMul(Share(SniperTally), SLOPE_30)), CONF_90)
        /\ Tick.historical_pattern = NoPattern => lastResult = lastBase

\* a tick that hints arb and quotes an ask was pushed to a window that now
\* tallies 3 sniper signals against 2 arb signals: sniper, against the hint
C26_Witness ==
    /\ input # <<>>
    /\ Len(calls) = HORIZON
    /\ Tick.mode = "arb"
    /\ Tick.best_ask # None
    /\ Tick.historical_pattern = NoPattern
    /\ SniperTally = 3
    /\ ArbTally = 2
    /\ lastResult.chosen_strategy = "sniper"
    /\ lastResult.confidence = Dec(78, 0 - 2)
\* strategy, risk mode and confidence of a decision
Verdict(d) == <<d.chosen_strategy, d.risk_mode, d.confidence>>

\* C27: when the tallies after the push are equal, the decision of
\* AIPortfolioManager.decide depends on the current tick alone, in strict
\* priority order: mode "arb" gives ou_arb, defensive, 0.95; else mode
\* "sniper" gives sniper, aggressive, 0.80; else a spread above 0.002 gives
\* ou_arb, defensive, min(0.5 + 10 * spread, 0.99); else a best_ask above 0
\* gives sniper, normal, 0.60; else ou_arb, normal, 0.50; and the rule-based
\* path never returns a null strategy.
C27_TieRules ==
    input # <<>> =>
        /\ ArbTally = SniperTally =>
              LET f == _extract_features(Tick)
              IN  Verdict(lastBase) =
                    IF Tick.mode = "arb" THEN <<"ou_arb", "defensive", CONF_95>>
                    ELSE IF Tick.mode = "sniper"
                    THEN <<"sniper", "aggressive", CONF_80>>
                    ELSE IF FGt(f.spread, MIN_SPREAD)
                    THEN <<"ou_arb", "defensive",
                           FMin(FAdd(HALF, FMul(TEN, f.spread)), CONF_99)>>
                    ELSE IF FGt(f.best_ask, FZero)
                    THEN <<"sniper", "normal", CONF_60>>
                    ELSE <<"ou_arb", "normal", CONF_50>>
        /\ lastBase.chosen_strategy \in VALID_STRATEGIES
        /\ lastResult.chosen_strategy \in VALID_STRATEGIES

\* a tie of 2 to 2 on a tick that hints sniper and quotes a spread above the
\* low bar: the hint decides
C27_Witness ==
    /\ input # <<>>
    /\ ArbTally = 2
    /\ SniperTally = 2
    /\ Tick.mode = "sniper"
    /\ FGt(_extract_features(Tick).spread, MIN_SPREAD)
    /\ Verdict(lastBase) = <<"sniper", "aggressive", CONF_80>>
\* ------------------------------------------------------------------------
\* Claims about the window on every path (SpecDecide)
\* ------------------------------------------------------------------------
\* a step in which decide_strategy returned: by the rule-based path, which
\* logs the call, or with a reply of the LLM
Decided ==
    \/ Len(calls') = Len(calls) + 1
    \/ lastPath' = "llm" /\ <<lastPath, lastResult, lastLLM>>' # <<lastPath, lastResult, lastLLM>>

\* C28: every call of decide_strategy appends exactly one feature record to
\* the regime window, whichever path produces the decision: rule-based, LLM
\* success, or LLM failure followed by fallback; the window grows by one
\* record up to its 5.
C28_EveryCallPushes ==
    [][ Decided =>
          Len(_history') = IF Len(_history) < HORIZON THEN Len(_history) + 1
                           ELSE HORIZON ]_vars
\* ------------------------------------------------------------------------
\* Claims about the historical-pattern adjustment (SpecRule)
\* ------------------------------------------------------------------------
\* the pattern of the tick has a 3-day average and the given confidence levels
Pattern(levels) ==
    /\ input # <<>>
    /\ Tick.historical_pattern.avg_return_3d # None
    /\ Tick.historical_pattern.confidence_level \in levels

\* C29: in the rule-based path, when historical_pattern has avg_return_3d
\* above 0.10 and confidence_level medium or high, the returned risk_mode is
\* aggressive and chosen_strategy is changed from ou_arb to sniper exactly
\* when the tick carries no explicit mode; a base choice of sniper is never
\* changed; and when confidence_level is low or absent the strategy and
\* risk_mode of the base decision are returned unchanged.
C29_BullishAdjustment ==
    /\ (Pattern({"medium", "high"})
          /\ FGt(Tick.historical_pattern.avg_return_3d, Dec(10, 0 - 2))) =>
          /\ lastResult.risk_mode = "aggressive"
          /\ lastResult.chosen_strategy =
                IF lastBase.chosen_strategy = "ou_arb" /\ Tick.mode = "None"
                THEN "sniper" ELSE lastBase.chosen_strategy
    /\ (input # <<>> /\ lastBase.chosen_strategy = "sniper") =>
          lastResult.chosen_strategy = "sniper"
    /\ Pattern({"low", "None"}) =>
          /\ lastResult.chosen_strategy = lastBase.chosen_strategy
          /\ lastResult.risk_mode = lastBase.risk_mode

\* an arb regime decided on a tick that hints arb, under a bullish pattern of
\* high confidence: ou_arb is kept and the risk mode is raised to aggressive
C29_Witness ==
    /\ Pattern({"high"})
    /\ FGt(Tick.historical_pattern.avg_return_3d, Dec(10, 0 - 2))
    /\ Tick.mode = "arb"
    /\ lastBase.chosen_strategy = "ou_arb"
    /\ lastBase.risk_mode = "defensive"
    /\ lastResult.chosen_strategy = "ou_arb"
    /\ lastResult.risk_mode = "aggressive"

\* C30: in the rule-based path, whenever historical_pattern has
\* avg_return_3d below -0.05, the returned risk_mode is defensive regardless
\* of which strategy was chosen, and the chosen strategy is the one of the
\* base decision.
C30_BearishIsDefensive ==
    (Pattern({"high", "medium", "low", "None"})
       /\ FLt(Tick.historical_pattern.avg_return_3d, FNeg(Dec(5, 0 - 2)))) =>
        /\ lastResult.risk_mode = "defensive"
        /\ lastResult.chosen_strategy = lastBase.chosen_strategy
\* ------------------------------------------------------------------------
\* Claims about the exit rule of the sniper (SpecEval)
\* ------------------------------------------------------------------------
\* the tick flags a position and bids above the target price
ExitDue(market_state) ==
    LET best_bid == PyOr(market_state.best_bid, market_state.current_bid)
    IN  /\ market_state.has_position
        /\ best_bid # None
        /\ FGt(best_bid, target_price)

\* C31: SniperStrategy.on_tick returns at most one instruction for any tick,
\* and when has_position is set and best_bid > target_price it returns the
\* SELL and never a BUY, even if the entry condition also holds on the tick.
C31_ExitBeforeEntry ==
    CalledAs("SniperStrategy.on_tick") =>
        /\ Len(returned[1].orders) <= 1
        /\ ExitDue(input[1]) =>
              /\ returned[1].orders # <<>>
              /\ \A i \in DOMAIN returned[1].orders :
                    returned[1].orders[i].side = "SELL"

\* C32: whenever a tick has has_position true and best_bid > target_price,
\* SniperStrategy.on_tick emits a SELL of notional / best_bid shares at
\* best_bid, whether or not the tick also carries a present and positive
\* best_ask; without has_position no SELL is ever emitted.
C32_ExitNeedsNoAsk ==
    CalledAs("SniperStrategy.on_tick") =>
        LET market_state == input[1]
            orders   == returned[1].orders
            best_bid == PyOr(market_state.best_bid, market_state.current_bid)
            notional == IF market_state.position_size = None THEN position_size
                        ELSE market_state.position_size
        IN  /\ ExitDue(market_state) =>
                  \E i \in DOMAIN orders :
                      /\ orders[i].side = "SELL"
                      /\ orders[i].price = best_bid
                      /\ orders[i].size = FDiv(notional, best_bid)
            /\ ~market_state.has_position =>
                  \A i \in DOMAIN orders : orders[i].side # "SELL"

\* C33: for every tick, SniperStrategy.is_opportunity(tick) is true exactly
\* when the entry test of on_tick(tick) passes, that is, when on_tick emits a
\* BUY for the tick without has_position, also for ticks that carry a
\* position_size or gas_cost_usd override.
C33_OpportunityIsEntryTest ==
    (CalledAs("SniperStrategy.is_opportunity") /\ ~returned[1].raised) =>
        (returned[1].opportunity <=>
            SniperStrategy_on_tick([input[1] EXCEPT !.has_position = FALSE]) # <<>>)
\* ------------------------------------------------------------------------
\* Claims about the router's statistics (SpecEval)
\* ------------------------------------------------------------------------
\* C34: the router's statistics agree with what it returned: whenever
\* StrategyRouter.on_tick increments the ou_arb or the sniper counter it
\* returns at least one order, and whenever it returns an empty order list it
\* has incremented the no-action counter and set last_routing_mode to NONE.
C34_CountersMatchOrders ==
    [][ Routed =>
          /\ (\/ routing_stats'.ou_arb = routing_stats.ou_arb + 1
              \/ routing_stats'.sniper = routing_stats.sniper + 1)
             => pending' # <<>>
          /\ pending' = <<>> =>
                /\ routing_stats'.none = routing_stats.none + 1
                /\ last_routing_mode' = "none" ]_vars
\* ------------------------------------------------------------------------
\* Claims about the legs of an arb pair (SpecRun)
\* ------------------------------------------------------------------------
\* the units the trades of tick k (counted from 1) moved on the given side
\* for the given reason
RECURSIVE Units(_, _, _, _)
Units(trs, k, side, reason) ==
    IF trs = <<>> THEN FZero
    ELSE LET t == Head(trs)
             rest == Units(Tail(trs), k, side, reason)
         IN  IF t.tick = k - 1 /\ t.side = side /\ t.meta.reason = reason
             THEN FAdd(t.size, rest) ELSE rest

\* C35: when the engine executes the two legs of an arb pair on one tick, the
\* SELL leg never sells more units than the BUY leg of the same tick bought,
\* so an arb tick never leaves the position lower than it was before the
\* tick.
C35_ArbLegsBalance ==
    \A k \in DOMAIN snaps :
        LET sold   == Units(trades, k, "SELL", "arb_sell_expensive")
            bought == Units(trades, k, "BUY", "arb_buy_cheap")
            before == IF k = 1 THEN FZero ELSE snaps[k - 1].position
        IN  Positive(sold) =>
              /\ FLe(sold, bought)
              /\ FGe(snaps[k].position, before)
\* ------------------------------------------------------------------------
\* Claims about the win/loss counts (SpecEngine)
\* ------------------------------------------------------------------------
\* the SELL trades of a run
Sells(trs) == {i \in DOMAIN trs : trs[i].side = "SELL"}

RECURSIVE Replayed(_)
Replayed(fs) ==
    IF fs = <<>> THEN <<>>
    ELSE _update_history(Replayed(SubSeq(fs, 1, Len(fs) - 1)), fs[Len(fs)])

\* the ticks decided immediately before the next one, at most HORIZON - 1
Recent(fs) ==
    SubSeq(fs, IF Len(fs) > HORIZON - 1 THEN Len(fs) - HORIZON + 2 ELSE 1, Len(fs))

\* C37: the rule-based decision has bounded memory: for a tick without
\* historical_pattern the result depends only on the tick and on the 4 ticks
\* decided immediately before it; an engine that has decided only those 4
\* ticks returns the same result for the tick as one with a longer history.
C37_BoundedMemory ==
    [][ Len(calls') = Len(calls) + 1 =>
          lastResult' = decide(Replayed(Recent(calls)), Last(calls'), "").result ]_vars

\* a sixth tick was decided sniper by 3 to 2 after an arb tick had left the
\* window
C37_Witness ==
    /\ Len(calls) = HORIZON + 1
    /\ ArbTick(calls[1])
    /\ ArbTick(calls[2])
    /\ ArbTick(calls[3])
    /\ NewestCalls(3, SniperTick)
    /\ lastResult.reason.n = 3
    /\ lastResult.reason.d = HORIZON
    /\ lastResult.chosen_strategy = "sniper"
\* ------------------------------------------------------------------------
\* Claims about the order book's liquidity (SpecBook, SpecBookFair)
\* ------------------------------------------------------------------------
\* the levels of the side a fill takes from
SideLevels(side, asks, bids) == IF side = "BUY" THEN asks ELSE bids

\* C38: a fill consumes the levels strictly front to back (a level is touched
\* only when all levels before it are exhausted), reports
\* filled = min(quantity, total quantity of the side), and takes the filled
\* quantity out of the book's levels, so that no level quantity is negative
\* and a later fill cannot consume the same liquidity again; this also holds
\* on a book flagged liquidity_crisis.  The reported quantity is compared
\* where quantity - remaining is exact: a quantity the first level holds is
\* filled whole, and a quantity above the side's total empties the side.
C38_FillLeavesTheBook ==
    [][ fills' = fills + 1 =>
          LET side   == last_fill'.side
              before == SideLevels(side, ask_levels, bid_levels)
              after  == SideLevels(side, ask_levels', bid_levels')
              total  == get_total_liquidity(before)
              filled == last_fill'.filled
              gone   == Len(before) - Len(after)
          IN  /\ before = <<>> => filled = FZero
              /\ (before # <<>> /\ FLe(last_fill'.quantity, before[1].qty)) =>
                    filled = last_fill'.quantity
              /\ FGt(last_fill'.quantity, total) => after = <<>>
              /\ FLe(filled, last_fill'.quantity)
              /\ gone >= 0
              /\ \A i \in 1..Len(after) :
                    /\ after[i].price = before[i + gone].price
                    /\ FGe(after[i].qty, FZero)
                    /\ FLe(after[i].qty, before[i + gone].qty)
                    /\ i > 1 => after[i] = before[i + gone]
              /\ Positive(filled) => FLt(get_total_liquidity(after), total) ]_vars

\* every initial level of a side is in the book with at least 20% of its
\* initial quantity
Present(levels, initial) ==
    /\ Len(levels) = Len(initial)
    /\ \A i \in 1..Len(initial) :
          FGe(levels[i].qty, FMul(initial[i].qty, Dec(2, 0 - 1)))

Restored ==
    /\ Present(ask_levels, _initial_ask_levels)
    /\ Present(bid_levels, _initial_bid_levels)

\* the last tick of the event that replenishes the book
LastReplenish == 3 * ((MaxEventTicks - 1) \div 3)

\* C39: within one event depletion is never permanent: after a fill has
\* consumed a side of the book, emptied levels included, the periodic
\* replenish_liquidity calls that follow in the event restore the book, so
\* that eventually every initial level is present again with at least 20% of
\* its initial quantity.
C39_DepletionIsNeverPermanent ==
    (Positive(last_fill.filled) /\ tick_in_event < LastReplenish) ~> Restored
====
